---- MODULE Spec2Model ----
(***************************************************************************)
(* Hamahang client core: the count quantizer (lib/approximation.ts), the   *)
(* synchronisation engine (lib/syncEngine.ts), the synced-slogan hook      *)
(* (hooks/useSyncedSlogan.ts), the IP geolocation resolver                 *)
(* (lib/ipGeolocate.ts), the crowd counter with its peak reporter          *)
(* (lib/serverCrowdCounter.ts, lib/crowdReporter.ts), the listeners of the *)
(* crowd counter and the vote hook (hooks/useSloganVote.ts), each as its   *)
(* own state machine over its own variables.                               *)
(***************************************************************************)
EXTENDS Integers, Sequences, FiniteSets, TLC

VARIABLES
    \* Quantizer: two raw counts and the results of approximateCount
    qA, qB, qOutA, qOutB, qPc,
    \* SyncEngine: two runs (snapshot, now) and what the functions returned
    snapA, nowA, stateA, expiredA,
    snapB, nowB, stateB, expiredB,
    \* which elapsed-time path each run took, and which functions have run
    pathA, pathB, ranCalculate, ranExpired,
    \* useSyncedSlogan: the refs and React state of the hook, its interval, the
    \* local clock, the get_current_slang calls in flight, and the number of
    \* fetches the tick has issued for the response the ref now holds
    serverResponseRef, isFetchingRef, hookState, isLoading, hookError,
    intervalOn, hookNow, rpcInFlight, tickFetches,
    \* ipGeolocate: the module-level cache and in-flight slot, the local clock,
    \* every fetchGeo() started, every ipGeolocate() call made, the last
    \* successful resolution and the number of network requests issued
    cachedResult, cachedAt, inflight, geoNow, resolutions, calls,
    lastSuccess, netVercel, netRaces,
    \* ServerCrowdCounter: its fields, the intervals that are live (by the
    \* start() call that set them), the `retries` of each retry interval, the
    \* start() calls awaiting the device hash, the local clock, the
    \* sendHeartbeat() calls under way, and what the last step began or ended
    counterStarted, deviceHash, heartbeatTimer, retryTimer, steadyLive, retryLive,
    retries, startCalls, awaitingHash, cachedCoords, cachedCoordsTime,
    crowdNow, crowdState, listeners, attempts, hbDone, hbBegan,
    \* CrowdReporter: its fields, the city of LocationService, the
    \* report_crowd_peak calls under way, the largest count delivered since
    \* start(), what the last step did and the last reporting tick
    reporterStarted, peakRawCount, lastReportedPeak, reportTimer,
    unsubscribeSource, currentCity, reports, maxDelivered, rpEvent, lastTick,
    \* useSloganVote: whether voterIdRef holds an id, the entry of one slogan
    \* in `votes`, the vote() calls on it in the order of issue, the call that
    \* is between its setVotes and its rpc, and what the last step did
    voterIdRef, voteState, voteLog, votePc, voteEvent,
    \* the number of start() calls of ServerCrowdCounter a behaviour follows
    \* and the number of sendHeartbeat() calls it lets overlap, both fixed
    \* from the first state on
    startsFollowed, attemptsFollowed,
    \* the number of vote() calls a behaviour follows, and the number of cities
    \* LocationService may detect, fixed as well
    votesFollowed, citiesFollowed,
    \* ServerCrowdCounter.subscribe: `state`, `listeners` in the order of
    \* insertion, every state produced so far, what each listener has been
    \* given, since when and until when it has been subscribed, whether its
    \* caller holds the unsubscribe function, and what the last step did
    subState, subOrder, subProduced, subReceived, subSpan, subHandle, subEvent

quantVars == <<qA, qB, qOutA, qOutB, qPc>>
syncVars ==
    <<snapA, nowA, stateA, expiredA, snapB, nowB, stateB, expiredB,
      pathA, pathB, ranCalculate, ranExpired>>
hookVars ==
    <<serverResponseRef, isFetchingRef, hookState, isLoading, hookError,
      intervalOn, hookNow, rpcInFlight, tickFetches>>
geoVars ==
    <<cachedResult, cachedAt, inflight, geoNow, resolutions, calls,
      lastSuccess, netVercel, netRaces>>
crowdVars ==
    <<counterStarted, deviceHash, heartbeatTimer, retryTimer, steadyLive, retryLive,
      retries, startCalls, awaitingHash, cachedCoords, cachedCoordsTime,
      crowdNow, crowdState, listeners, attempts, hbDone, hbBegan,
      reporterStarted, peakRawCount, lastReportedPeak, reportTimer,
      unsubscribeSource, currentCity, reports, maxDelivered, rpEvent,
      lastTick>>
voteVars == <<voterIdRef, voteState, voteLog, votePc, voteEvent>>
followedVars ==
    <<startsFollowed, attemptsFollowed, votesFollowed, citiesFollowed>>
subVars ==
    <<subState, subOrder, subProduced, subReceived, subSpan, subHandle, subEvent>>
vars ==
    <<quantVars, syncVars, hookVars, geoVars, crowdVars, voteVars, followedVars,
      subVars>>
\* What the actions of one component leave alone: the other components
notQuantVars == <<syncVars, hookVars, geoVars, crowdVars, voteVars,
    followedVars, subVars>>
notSyncVars == <<quantVars, hookVars, geoVars, crowdVars, voteVars,
    followedVars, subVars>>
notHookVars == <<quantVars, syncVars, geoVars, crowdVars, voteVars,
    followedVars, subVars>>
notGeoVars == <<quantVars, syncVars, hookVars, crowdVars, voteVars,
    followedVars, subVars>>
notCrowdVars == <<quantVars, syncVars, hookVars, geoVars, voteVars,
    followedVars, subVars>>
notVoteVars == <<quantVars, syncVars, hookVars, geoVars, crowdVars,
    followedVars, subVars>>
notSubVars ==
    <<quantVars, syncVars, hookVars, geoVars, crowdVars, voteVars, followedVars>>

\* JavaScript null
Null == [tag |-> "null"]

Max(a, b) == IF a >= b THEN a ELSE b
Min(a, b) == IF a <= b THEN a ELSE b

(***************************************************************************)
(* JavaScript arithmetic on the integers the program uses                  *)
(***************************************************************************)
\* Math.floor(n / d), d > 0
MathFloorDiv(n, d) == n \div d
\* Math.ceil(n / d), d > 0
MathCeilDiv(n, d) == -((-n) \div d)
\* Math.round(n / d), d > 0: the nearest integer, a half rounding up
MathRoundDiv(n, d) == (2 * n + d) \div (2 * d)
\* n % d of JavaScript: the remainder takes the sign of the dividend
JsRem(n, d) == IF n >= 0 THEN n % d ELSE -((-n) % d)

(***************************************************************************)
(* Quantizer (lib/approximation.ts)                                        *)
(***************************************************************************)
\* Largest raw count drawn
MaxRaw == 700

\* approximateCount rounding down where the code rounds to nearest
approximateCount_Floor(raw) ==
    IF raw <= 0 THEN 0
    ELSE IF raw <= 10 THEN 10
    ELSE IF raw <= 50 THEN MathFloorDiv(raw, 10) * 10
    ELSE IF raw <= 200 THEN MathFloorDiv(raw, 25) * 25
    ELSE IF raw <= 500 THEN MathFloorDiv(raw, 50) * 50
    ELSE MathFloorDiv(raw, 100) * 100

\* approximateCount handing the counts up to 10 out as they are
approximateCount_SmallExact(raw) ==
    IF raw <= 0 THEN 0
    ELSE IF raw <= 10 THEN raw
    ELSE IF raw <= 50 THEN MathRoundDiv(raw, 10) * 10
    ELSE IF raw <= 200 THEN MathRoundDiv(raw, 25) * 25
    ELSE IF raw <= 500 THEN MathRoundDiv(raw, 50) * 50
    ELSE MathRoundDiv(raw, 100) * 100

\* approximateCount with the [11,50] bucket running to 60
approximateCount_WideTens(raw) ==
    IF raw <= 0 THEN 0
    ELSE IF raw <= 10 THEN 10
    ELSE IF raw <= 60 THEN MathRoundDiv(raw, 10) * 10
    ELSE IF raw <= 200 THEN MathRoundDiv(raw, 25) * 25
    ELSE IF raw <= 500 THEN MathRoundDiv(raw, 50) * 50
    ELSE MathRoundDiv(raw, 100) * 100

approximateCount(raw) ==
    IF raw <= 0 THEN 0
    ELSE IF raw <= 10 THEN 10
    ELSE IF raw <= 50 THEN MathRoundDiv(raw, 10) * 10
    ELSE IF raw <= 200 THEN MathRoundDiv(raw, 25) * 25
    ELSE IF raw <= 500 THEN MathRoundDiv(raw, 50) * 50
    ELSE MathRoundDiv(raw, 100) * 100

QuantInit ==
    /\ qA \in 0..MaxRaw
    /\ qB \in qA..MaxRaw
    /\ qOutA = -1
    /\ qOutB = -1
    /\ qPc = "input"

QuantIdle ==
    /\ qA = 0
    /\ qB = 0
    /\ qOutA = -1
    /\ qOutB = -1
    /\ qPc = "idle"

\* A caller applies approximateCount to the two raw counts
Approximate ==
    /\ qPc = "input"
    /\ qOutA' = approximateCount(qA)
    /\ qOutB' = approximateCount(qB)
    /\ qPc' = "done"
    /\ UNCHANGED <<qA, qB>>
    /\ UNCHANGED notQuantVars

(***************************************************************************)
(* SyncEngine (lib/syncEngine.ts)                                          *)
(***************************************************************************)
\* Milliseconds in a second
MsPerSecond == 1000
\* The display tick of the hook, in milliseconds
TickMs == 100
\* Largest repeat_count drawn
MaxRepeat == 3
\* now runs from MaxBackTicks ticks before the anchor to MaxTicks after it
MaxBackTicks == 2
MaxTicks == 151

SecondsPerSet == {1, 5}
ElapsedInSlangSet == {0, 250, 4600}
ReceivedAtSet == {0, 1000, 7300}
\* startedAt as the server sends it: the instant, the date/time separator and
\* the zone suffix of the text
StartedAtSet ==
    { [ms |-> 500, sep |-> " ", tz |-> "+00"],
      [ms |-> 2000, sep |-> "T", tz |-> "+00:00"] }

Slangs ==
    { [tag |-> "slang", seconds_per |-> sp, repeat_count |-> rc] :
        sp \in SecondsPerSet, rc \in 1..MaxRepeat }

\* startedAt.replace(' ', 'T'), then ':00' appended to a '+00' suffix
NormalizeTimestamp(startedAt) ==
    [ms |-> startedAt.ms,
     sep |-> IF startedAt.sep = " " THEN "T" ELSE startedAt.sep,
     tz |-> IF startedAt.tz = "+00" THEN "+00:00" ELSE startedAt.tz]

\* new Date(text).getTime(): an ISO text with a full zone suffix parses
DateParse(ts) ==
    IF ts.sep = "T" /\ ts.tz = "+00:00" THEN ts.ms ELSE [tag |-> "NaN"]

\* if (receivedAt): undefined and 0 are both falsy
ReceivedAtTruthy(serverResponse) ==
    serverResponse.hasReceivedAt /\ serverResponse.receivedAt # 0

ElapsedPath(serverResponse) ==
    IF ReceivedAtTruthy(serverResponse) THEN "received" ELSE "fallback"

\* The elapsed time both functions compute
Elapsed(serverResponse, now) ==
    IF ReceivedAtTruthy(serverResponse)
    THEN LET timeSinceReceived == now - serverResponse.receivedAt
         IN  serverResponse.elapsedInSlang + timeSinceReceived
    ELSE LET startTime == DateParse(NormalizeTimestamp(serverResponse.startedAt))
         IN  now - startTime

\* A variant whose repeat counts up from 1 instead of down from repeat_count
calculateLocalState_CountsUp(serverResponse, now) ==
    IF serverResponse.slang = Null THEN Null
    ELSE
    LET slang == serverResponse.slang
        elapsed == Elapsed(serverResponse, now)
    IN  IF elapsed >= serverResponse.totalDuration THEN Null
        ELSE
        LET secondsPerMs == slang.seconds_per * MsPerSecond
            repeatIndex == MathFloorDiv(elapsed, secondsPerMs)
            positionInRepeat == JsRem(elapsed, secondsPerMs)
            msRemaining == secondsPerMs - positionInRepeat
            secondsRemaining == MathCeilDiv(msRemaining, MsPerSecond)
        IN  [tag |-> "state",
             slang |-> slang,
             currentRepeat |-> Max(1, 1 + repeatIndex),
             secondsRemaining |-> Min(secondsRemaining, slang.seconds_per),
             totalDuration |-> serverResponse.totalDuration,
             elapsedInSlang |-> elapsed]

calculateLocalState(serverResponse, now) ==
    IF serverResponse.slang = Null THEN Null
    ELSE
    LET slang == serverResponse.slang
        elapsed == Elapsed(serverResponse, now)
    IN  IF elapsed >= serverResponse.totalDuration THEN Null
        ELSE
        LET secondsPerMs == slang.seconds_per * MsPerSecond
            repeatIndex == MathFloorDiv(elapsed, secondsPerMs)
            currentRepeat == slang.repeat_count - repeatIndex
            positionInRepeat == JsRem(elapsed, secondsPerMs)
            msRemaining == secondsPerMs - positionInRepeat
            secondsRemaining == MathCeilDiv(msRemaining, MsPerSecond)
        IN  [tag |-> "state",
             slang |-> slang,
             currentRepeat |-> Max(1, currentRepeat),
             secondsRemaining |-> Min(secondsRemaining, slang.seconds_per),
             totalDuration |-> serverResponse.totalDuration,
             elapsedInSlang |-> elapsed]

\* A variant that lets the boundary elapsed = totalDuration pass as not expired
isSlangExpired_Strict(serverResponse, now) ==
    Elapsed(serverResponse, now) > serverResponse.totalDuration

isSlangExpired(serverResponse, now) ==
    Elapsed(serverResponse, now) >= serverResponse.totalDuration

TotalDurationOf(slang) ==
    IF slang = Null THEN 0
    ELSE slang.seconds_per * slang.repeat_count * MsPerSecond

Snapshot(slang, elapsed, has, recv, started) ==
    [slang |-> slang,
     totalDuration |-> TotalDurationOf(slang),
     elapsedInSlang |-> elapsed,
     hasReceivedAt |-> has,
     receivedAt |-> recv,
     startedAt |-> started]

\* Run A is any snapshot and any now near its anchor. Run B is run A with the
\* stamp and startedAt drawn again and now moved so that now - receivedAt is
\* the same (an unstamped run A is repeated as it is).
SyncInit ==
    /\ \E slang \in Slangs \cup {Null}, elapsed \in ElapsedInSlangSet,
          has \in BOOLEAN, recv \in ReceivedAtSet, started \in StartedAtSet :
          /\ (~has => recv = 0)
          /\ snapA = Snapshot(slang, elapsed, has, recv, started)
    /\ \E k \in (-MaxBackTicks)..MaxTicks :
          nowA = (IF snapA.hasReceivedAt THEN snapA.receivedAt
                  ELSE snapA.startedAt.ms) + k * TickMs
    /\ \E recv \in ReceivedAtSet, started \in StartedAtSet :
          IF snapA.hasReceivedAt
          THEN /\ snapB = [snapA EXCEPT !.receivedAt = recv, !.startedAt = started]
               /\ nowB = recv + (nowA - snapA.receivedAt)
          ELSE /\ recv = 0
               /\ started = snapA.startedAt
               /\ snapB = snapA
               /\ nowB = nowA
    /\ nowA >= 0
    /\ nowB >= 0
    /\ stateA = Null
    /\ stateB = Null
    /\ expiredA = FALSE
    /\ expiredB = FALSE
    /\ pathA = "none"
    /\ pathB = "none"
    /\ ranCalculate = FALSE
    /\ ranExpired = FALSE

\* How far the local clock has moved on between two reads of one snapshot, in
\* milliseconds: the display interval, delayed callbacks, whole seconds
ClockAdvanceSet == {0, 100, 130, 1000, 4900}

\* The display loop of the hook: one snapshot (serverResponseRef.current) is
\* read at two instants of a clock that does not go back. Run A reads it at
\* nowA, run B reads the same snapshot at nowB >= nowA.
CountdownInit ==
    /\ \E slang \in Slangs \cup {Null}, elapsed \in ElapsedInSlangSet,
          has \in BOOLEAN, recv \in ReceivedAtSet, started \in StartedAtSet :
          /\ (~has => recv = 0)
          /\ snapA = Snapshot(slang, elapsed, has, recv, started)
    /\ \E k \in (-MaxBackTicks)..MaxTicks :
          nowA = (IF ReceivedAtTruthy(snapA) THEN snapA.receivedAt
                  ELSE snapA.startedAt.ms) + k * TickMs
    /\ snapB = snapA
    /\ \E advance \in ClockAdvanceSet : nowB = nowA + advance
    /\ nowA >= 0
    /\ stateA = Null
    /\ stateB = Null
    /\ expiredA = FALSE
    /\ expiredB = FALSE
    /\ pathA = "none"
    /\ pathB = "none"
    /\ ranCalculate = FALSE
    /\ ranExpired = FALSE

SyncIdle ==
    /\ snapA = Null
    /\ snapB = Null
    /\ nowA = 0
    /\ nowB = 0
    /\ stateA = Null
    /\ stateB = Null
    /\ expiredA = FALSE
    /\ expiredB = FALSE
    /\ pathA = "none"
    /\ pathB = "none"
    /\ ranCalculate = FALSE
    /\ ranExpired = FALSE

\* calculateLocalState is applied to both runs
CalculateLocalState ==
    /\ ~ranCalculate
    /\ stateA' = calculateLocalState(snapA, nowA)
    /\ stateB' = calculateLocalState(snapB, nowB)
    /\ pathA' = ElapsedPath(snapA)
    /\ pathB' = ElapsedPath(snapB)
    /\ ranCalculate' = TRUE
    /\ UNCHANGED <<snapA, nowA, snapB, nowB, expiredA, expiredB, ranExpired>>
    /\ UNCHANGED notSyncVars

\* isSlangExpired is applied to both runs
IsSlangExpired ==
    /\ ~ranExpired
    /\ expiredA' = isSlangExpired(snapA, nowA)
    /\ expiredB' = isSlangExpired(snapB, nowB)
    /\ ranExpired' = TRUE
    /\ UNCHANGED <<snapA, nowA, snapB, nowB, stateA, stateB, pathA, pathB,
                   ranCalculate>>
    /\ UNCHANGED notSyncVars


(***************************************************************************)
(* useSyncedSlogan (hooks/useSyncedSlogan.ts)                              *)
(***************************************************************************)
\* The local clock starts HookStartTicks ticks after the epoch and the model
\* follows it for MaxHookTicks ticks
HookStartTicks == 10
MaxHookTicks == 24
\* Largest repeat_count of the slangs the server hands out to the hook
MaxHookRepeat == 2

\* What get_current_slang can return: a slang one second long per repeat,
\* some way into its run
HookServerData ==
    { [slang |-> [tag |-> "slang", seconds_per |-> 1, repeat_count |-> rc],
       elapsedInSlang |-> e] : rc \in 1..MaxHookRepeat, e \in {0, 250} }

HookStartedAt == [ms |-> 500, sep |-> " ", tz |-> "+00"]

\* fetchCurrentSlang without its guard
FetchGuardPasses_Always == TRUE

\* The guard of fetchCurrentSlang: a fetch in progress makes the call return
FetchGuardPasses == ~isFetchingRef

\* fetchCurrentSlang() up to its await: the guard, the flag, setError(null)
\* and the RPC; fromTick says that the expiry branch of updateState called it
FetchCurrentSlang(fromTick) ==
    IF FetchGuardPasses
    THEN /\ isFetchingRef' = TRUE
         /\ hookError' = "none"
         /\ rpcInFlight' = rpcInFlight + 1
         /\ tickFetches' = IF fromTick THEN tickFetches + 1 ELSE tickFetches
    ELSE UNCHANGED <<isFetchingRef, hookError, rpcInFlight, tickFetches>>

\* updateState() on the response the ref holds, at local time now
UpdateState(response, now) ==
    IF response = Null
    THEN /\ hookState' = Null
         /\ UNCHANGED <<isFetchingRef, hookError, rpcInFlight, tickFetches>>
    ELSE IF isSlangExpired(response, now)
    THEN /\ FetchCurrentSlang(TRUE)
         /\ UNCHANGED hookState
    ELSE /\ hookState' = calculateLocalState(response, now)
         /\ UNCHANGED <<isFetchingRef, hookError, rpcInFlight, tickFetches>>

\* After mount: the initial fetch is in flight, nothing is shown
HookInit ==
    /\ serverResponseRef = Null
    /\ isFetchingRef = TRUE
    /\ hookState = Null
    /\ isLoading = TRUE
    /\ hookError = "none"
    /\ intervalOn = FALSE
    /\ hookNow = HookStartTicks * TickMs
    /\ rpcInFlight = 1
    /\ tickFetches = 0

HookIdle ==
    /\ serverResponseRef = Null
    /\ isFetchingRef = FALSE
    /\ hookState = Null
    /\ isLoading = FALSE
    /\ hookError = "none"
    /\ intervalOn = FALSE
    /\ hookNow = 0
    /\ rpcInFlight = 0
    /\ tickFetches = 0

ClockMayAdvance == hookNow < (HookStartTicks + MaxHookTicks) * TickMs

\* The 100 ms interval fires: updateState()
IntervalTick ==
    /\ intervalOn
    /\ ClockMayAdvance
    /\ hookNow' = hookNow + TickMs
    /\ UpdateState(serverResponseRef, hookNow')
    /\ UNCHANGED <<serverResponseRef, isLoading, intervalOn>>
    /\ UNCHANGED notHookVars

\* Time passes while no interval is armed
TimePasses ==
    /\ ~intervalOn
    /\ ClockMayAdvance
    /\ hookNow' = hookNow + TickMs
    /\ UNCHANGED <<serverResponseRef, isFetchingRef, hookState, isLoading,
                   hookError, intervalOn, rpcInFlight, tickFetches>>
    /\ UNCHANGED notHookVars

\* A realtime change event (settings or slangs) or a manual refetch
RealtimeChange ==
    /\ FetchCurrentSlang(FALSE)
    /\ UNCHANGED <<serverResponseRef, hookState, isLoading, intervalOn, hookNow>>
    /\ UNCHANGED notHookVars

\* The RPC returns a slang: the response is stamped and stored; the effect on
\* serverResponse runs again (clear the interval, updateState(), new interval)
RpcReturnsSlang ==
    /\ rpcInFlight > 0
    /\ \E data \in HookServerData :
          LET response == Snapshot(data.slang, data.elapsedInSlang, TRUE,
                                   hookNow, HookStartedAt)
          IN  /\ serverResponseRef' = response
              /\ IF isSlangExpired(response, hookNow)
                 THEN /\ isFetchingRef' = TRUE
                      /\ rpcInFlight' = rpcInFlight
                      /\ tickFetches' = 1
                      /\ UNCHANGED hookState
                 ELSE /\ isFetchingRef' = FALSE
                      /\ rpcInFlight' = rpcInFlight - 1
                      /\ tickFetches' = 0
                      /\ hookState' = calculateLocalState(response, hookNow)
    /\ isLoading' = FALSE
    /\ intervalOn' = TRUE
    /\ UNCHANGED <<hookError, hookNow>>
    /\ UNCHANGED notHookVars

\* The RPC returns no data: the response is cleared and the effect, run again,
\* arms no interval
RpcReturnsEmpty ==
    /\ rpcInFlight > 0
    /\ rpcInFlight' = rpcInFlight - 1
    /\ serverResponseRef' = Null
    /\ tickFetches' = 0
    /\ isLoading' = FALSE
    /\ isFetchingRef' = FALSE
    /\ intervalOn' = FALSE
    /\ UNCHANGED <<hookState, hookError, hookNow>>
    /\ UNCHANGED notHookVars

\* The RPC fails (rpcError or a thrown error): the error is recorded, the
\* stored response and the interval stay as they are
RpcFails ==
    /\ rpcInFlight > 0
    /\ rpcInFlight' = rpcInFlight - 1
    /\ hookError' = "error"
    /\ isLoading' = FALSE
    /\ isFetchingRef' = FALSE
    /\ UNCHANGED <<serverResponseRef, hookState, intervalOn, hookNow,
                   tickFetches>>
    /\ UNCHANGED notHookVars

(***************************************************************************)
(* ipGeolocate (lib/ipGeolocate.ts)                                        *)
(***************************************************************************)
CACHE_MAX_AGE_MS == 5 * 60 * 1000
\* The clock moves in steps of a minute, MaxGeoSteps of them
GeoStepMs == 60 * MsPerSecond
MaxGeoSteps == 5
\* ipGeolocate() calls followed
MaxCalls == 3
\* The entries of fallbackEndpoints: geojs, freeipapi, ipwhois.app, ipwho.is
\* and ipinfo
NumAdapters == 5

\* A promise that has not settled
Pending == [tag |-> "pending"]

\* JSON values as the parsers meet them
JUndefined == [t |-> "undefined"]
JNull == [t |-> "null"]
JNum(n) == [t |-> "number", n |-> n]
JStr(text) == [t |-> "string", s |-> text]

\* A JavaScript number: NaN or an integer
NaN == [nan |-> TRUE, n |-> 0]
Num(n) == [nan |-> FALSE, n |-> n]

\* Number(text) for the texts the model uses
StringToNumber(text) ==
    CASE text = "" -> Num(0)
      [] text = "0" -> Num(0)
      [] text = "35" -> Num(35)
      [] text = "51" -> Num(51)
      [] OTHER -> NaN

\* Number(v)
ToNumber(v) ==
    CASE v.t = "undefined" -> NaN
      [] v.t = "null" -> Num(0)
      [] v.t = "number" -> Num(v.n)
      [] v.t = "string" -> StringToNumber(v.s)

\* v || null
OrNull(v) ==
    CASE v.t = "undefined" -> Null
      [] v.t = "null" -> Null
      [] v.t = "number" -> IF v.n = 0 THEN Null ELSE v
      [] v.t = "string" -> IF v.s = "" THEN Null ELSE v

\* The check the five third-party parsers share:
\* isNaN(lat) || isNaN(lng) || lat === 0 rejects
ParseLatLng(latRaw, lngRaw, cityRaw) ==
    LET lat == ToNumber(latRaw)
        lng == ToNumber(lngRaw)
    IN  IF lat.nan \/ lng.nan \/ lat.n = 0 THEN Null
        ELSE [lat |-> lat.n, lng |-> lng.n, city |-> OrNull(cityRaw)]

parseGeoJs(d) == ParseLatLng(d.latitude, d.longitude, d.city)
parseFreeIpApi(d) == ParseLatLng(d.latitude, d.longitude, d.cityName)
parseIpWhoisApp(d) == ParseLatLng(d.latitude, d.longitude, d.city)
parseIpWhoIs(d) == ParseLatLng(d.latitude, d.longitude, d.city)
\* loc is a text split at its commas, or no text at all
parseIpInfo(d) ==
    IF d.loc.t = "string" /\ Len(d.loc.parts) >= 2
    THEN ParseLatLng(JStr(d.loc.parts[1]), JStr(d.loc.parts[2]), d.city)
    ELSE Null

\* fallbackEndpoints[i].parse
AdapterParse(i, d) ==
    CASE i = 1 -> parseGeoJs(d)
      [] i = 2 -> parseFreeIpApi(d)
      [] i = 3 -> parseIpWhoisApp(d)
      [] i = 4 -> parseIpWhoIs(d)
      [] i = 5 -> parseIpInfo(d)

\* The body check of fetchVercelGeo: isNaN(lat) || isNaN(lng) || !lat rejects
VercelParse(data) ==
    LET lat == ToNumber(data.lat)
        lng == ToNumber(data.lng)
    IN  IF lat.nan \/ lng.nan \/ (lat.nan \/ lat.n = 0) THEN Null
        ELSE [lat |-> lat.n, lng |-> lng.n, city |-> OrNull(data.city)]

\* The response bodies the servers may send, as (latitude, longitude, city):
\* a full answer, a missing, zero or null latitude, a null or empty
\* longitude, a longitude that is no number
LatLngCityValues ==
    { <<JNum(35), JNum(51), JStr("Tehran")>>,
      <<JUndefined, JNum(51), JStr("Tehran")>>,
      <<JNum(0), JNum(51), JUndefined>>,
      <<JNull, JNum(51), JUndefined>>,
      <<JNum(35), JNull, JUndefined>>,
      <<JNum(35), JStr("abc"), JStr("Tehran")>> }
\* loc of ipinfo and its city: no loc, a text without a comma, a full text, an
\* empty longitude, a zero latitude, a longitude that is no number
LocCityValues ==
    { <<JUndefined, JStr("Tehran")>>,
      <<[t |-> "string", parts |-> <<"abc">>], JStr("Tehran")>>,
      <<[t |-> "string", parts |-> <<"35", "51">>], JStr("Tehran")>>,
      <<[t |-> "string", parts |-> <<"35", "">>], JUndefined>>,
      <<[t |-> "string", parts |-> <<"0", "51">>], JUndefined>>,
      <<[t |-> "string", parts |-> <<"35", "abc">>], JUndefined>> }

VercelBodies ==
    { [lat |-> v[1], lng |-> v[2], city |-> v[3]] : v \in LatLngCityValues }

AdapterBodies(i) ==
    CASE i = 2 ->
           { [latitude |-> v[1], longitude |-> v[2], cityName |-> v[3]] :
               v \in LatLngCityValues }
      [] i = 5 -> { [loc |-> v[1], city |-> v[2]] : v \in LocCityValues }
      [] OTHER ->
           { [latitude |-> v[1], longitude |-> v[2], city |-> v[3]] :
               v \in LatLngCityValues }

\* cachedResult && Date.now() - cachedAt < CACHE_MAX_AGE_MS
CacheFresh_Inclusive ==
    cachedResult # Null /\ geoNow - cachedAt <= CACHE_MAX_AGE_MS

CacheFresh ==
    cachedResult # Null /\ geoNow - cachedAt < CACHE_MAX_AGE_MS

\* if (inflight): a request is in flight and its promise is reused
ReuseInflight_Never == FALSE

ReuseInflight == inflight # 0

\* What the .then callback stores: a result is cached with its time, a null
\* result leaves the cache as it was
CacheAfter(result) ==
    IF result # Null
    THEN [result |-> result, at |-> geoNow]
    ELSE [result |-> cachedResult, at |-> cachedAt]

NoSuccess == [tag |-> "none"]

GeoInit ==
    /\ cachedResult = Null
    /\ cachedAt = 0
    /\ inflight = 0
    /\ geoNow = GeoStepMs
    /\ resolutions = <<>>
    /\ calls = <<>>
    /\ lastSuccess = NoSuccess
    /\ netVercel = 0
    /\ netRaces = 0

GeoIdle ==
    /\ cachedResult = Null
    /\ cachedAt = 0
    /\ inflight = 0
    /\ geoNow = 0
    /\ resolutions = <<>>
    /\ calls = <<>>
    /\ lastSuccess = NoSuccess
    /\ netVercel = 0
    /\ netRaces = 0

\* The resolutions whose network requests are still out
ActiveResolutions ==
    {r \in DOMAIN resolutions : resolutions[r].phase # "done"}

\* A call as the model records it: when it was made, how it was served (from
\* the cache, by joining or by starting a resolution), which resolution, what
\* it returned, the last successful resolution before it and whether a
\* resolution was under way when it was made
Call(how, r, returned) ==
    [at |-> geoNow, how |-> how, res |-> r, returned |-> returned,
     lastSuccess |-> lastSuccess, busy |-> ActiveResolutions # {}]

\* fetchGeo() starting the race together with the /api/geo request
NewResolution_RacesAtOnce ==
    [phase |-> "external", pending |-> 1..NumAdapters, vercel |-> "pending",
     external |-> "racing", allRejected |-> FALSE, result |-> Pending]

\* fetchGeo() up to the first await: the /api/geo request is out
NewResolution ==
    [phase |-> "vercel", pending |-> {}, vercel |-> "pending",
     external |-> "none", allRejected |-> FALSE, result |-> Pending]

\* ipGeolocate()
IpGeolocate ==
    /\ Len(calls) < MaxCalls
    /\ IF CacheFresh
       THEN /\ calls' = Append(calls, Call("cache", 0, cachedResult))
            /\ UNCHANGED <<inflight, resolutions, netVercel>>
       ELSE IF ReuseInflight
       THEN /\ calls' = Append(calls, Call("joined", inflight, Pending))
            /\ UNCHANGED <<inflight, resolutions, netVercel>>
       ELSE /\ resolutions' = Append(resolutions, NewResolution)
            /\ inflight' = Len(resolutions) + 1
            /\ netVercel' = netVercel + 1
            /\ calls' = Append(calls, Call("started", Len(resolutions) + 1, Pending))
    /\ UNCHANGED <<cachedResult, cachedAt, geoNow, lastSuccess, netRaces>>
    /\ UNCHANGED notGeoVars

\* A .then callback that leaves the slot as it is
Settle_KeepsSlot(r, record, result) ==
    /\ resolutions' = [resolutions EXCEPT
                         ![r] = [record EXCEPT !.phase = "done", !.pending = {},
                                               !.result = result]]
    /\ cachedResult' = CacheAfter(result).result
    /\ cachedAt' = CacheAfter(result).at
    /\ inflight' = inflight
    /\ calls' = [i \in DOMAIN calls |->
                   IF calls[i].res = r /\ calls[i].returned = Pending
                   THEN [calls[i] EXCEPT !.returned = result]
                   ELSE calls[i]]
    /\ lastSuccess' = IF result # Null
                      THEN [tag |-> "success", at |-> geoNow, result |-> result]
                      ELSE lastSuccess

\* fetchGeo() of resolution r settles with result: the .then callback caches a
\* result, clears the slot, and every caller holding the promise gets result
Settle(r, record, result) ==
    /\ resolutions' = [resolutions EXCEPT
                         ![r] = [record EXCEPT !.phase = "done", !.pending = {},
                                               !.result = result]]
    /\ cachedResult' = CacheAfter(result).result
    /\ cachedAt' = CacheAfter(result).at
    /\ inflight' = 0
    /\ calls' = [i \in DOMAIN calls |->
                   IF calls[i].res = r /\ calls[i].returned = Pending
                   THEN [calls[i] EXCEPT !.returned = result]
                   ELSE calls[i]]
    /\ lastSuccess' = IF result # Null
                      THEN [tag |-> "success", at |-> geoNow, result |-> result]
                      ELSE lastSuccess

\* fetchVercelGeo() returned null: the race of the third-party lookups starts
StartExternal(r, record) ==
    /\ resolutions' = [resolutions EXCEPT
                         ![r] = [record EXCEPT !.phase = "external",
                                               !.pending = 1..NumAdapters,
                                               !.external = "racing"]]
    /\ netRaces' = netRaces + 1
    /\ UNCHANGED <<cachedResult, cachedAt, inflight, calls, lastSuccess>>

\* /api/geo answers 200 with a body
VercelResponds ==
    \E r \in DOMAIN resolutions :
      \E result \in {VercelParse(data) : data \in VercelBodies} :
        /\ resolutions[r].phase = "vercel"
        /\ IF result # Null
           THEN /\ Settle(r, [resolutions[r] EXCEPT !.vercel = "ok"], result)
                /\ UNCHANGED netRaces
           ELSE StartExternal(r, [resolutions[r] EXCEPT !.vercel = "failed"])
        /\ UNCHANGED <<geoNow, netVercel>>
        /\ UNCHANGED notGeoVars

\* /api/geo fails: a network error, a non-2xx status or the 3 s abort
VercelFails ==
    \E r \in DOMAIN resolutions :
        /\ resolutions[r].phase = "vercel"
        /\ StartExternal(r, [resolutions[r] EXCEPT !.vercel = "failed"])
        /\ UNCHANGED <<geoNow, netVercel>>
        /\ UNCHANGED notGeoVars

\* Promise.any rejecting on the first rejection
AdapterOut_FirstRejectionLoses(r, i) ==
    Settle(r, [resolutions[r] EXCEPT
                 !.external = "lost",
                 !.allRejected = (resolutions[r].pending \ {i} = {})], Null)

\* Adapter i leaves the race without a result (its promise rejects); the race
\* is lost when the last one does (Promise.any rejects, fetchExternalGeo
\* returns null)
AdapterOut(r, i) ==
    LET left == resolutions[r].pending \ {i}
    IN  IF left = {}
        THEN Settle(r, [resolutions[r] EXCEPT !.external = "lost",
                                              !.allRejected = (left = {})], Null)
        ELSE /\ resolutions' = [resolutions EXCEPT ![r].pending = left]
             /\ UNCHANGED <<cachedResult, cachedAt, inflight, calls, lastSuccess>>

\* A third-party endpoint answers 200 with a body: a parsed result wins the
\* race (Promise.any), the others are aborted; a parse failure is a rejection
AdapterResponds ==
    \E r \in DOMAIN resolutions :
      \E i \in resolutions[r].pending :
        \E parsed \in {AdapterParse(i, d) : d \in AdapterBodies(i)} :
          /\ resolutions[r].phase = "external"
          /\ IF parsed # Null
             THEN Settle(r, [resolutions[r] EXCEPT !.external = "won"], parsed)
             ELSE AdapterOut(r, i)
          /\ UNCHANGED <<geoNow, netVercel, netRaces>>
          /\ UNCHANGED notGeoVars

\* A third-party endpoint fails: a network error or a non-2xx status
AdapterFails ==
    \E r \in DOMAIN resolutions :
      \E i \in resolutions[r].pending :
          /\ resolutions[r].phase = "external"
          /\ AdapterOut(r, i)
          /\ UNCHANGED <<geoNow, netVercel, netRaces>>
          /\ UNCHANGED notGeoVars

\* The 6 s timer aborts every lookup still out: Promise.any rejects
ExternalTimeout ==
    \E r \in DOMAIN resolutions :
        /\ resolutions[r].phase = "external"
        /\ Settle(r, [resolutions[r] EXCEPT !.external = "timeout"], Null)
        /\ UNCHANGED <<geoNow, netVercel, netRaces>>
        /\ UNCHANGED notGeoVars

\* A minute passes
GeoClockTick ==
    /\ geoNow < (MaxGeoSteps + 1) * GeoStepMs
    /\ geoNow' = geoNow + GeoStepMs
    /\ UNCHANGED <<cachedResult, cachedAt, inflight, resolutions, calls,
                   lastSuccess, netVercel, netRaces>>
    /\ UNCHANGED notGeoVars

(***************************************************************************)
(* ServerCrowdCounter (lib/serverCrowdCounter.ts) and CrowdReporter        *)
(* (lib/crowdReporter.ts), which subscribes to it                          *)
(***************************************************************************)
MAX_INITIAL_RETRIES == 10
COORDS_MAX_AGE_MS == 5 * 60 * 1000

\* start() calls that pass the `started` guard
MaxStarts == 1
\* the same where one session follows another
MaxSessions == 2
\* sendHeartbeat() calls under way at one time
MaxAttempts == 2
\* `retries` of a retry interval is counted up to one past the limit, where
\* it stays while the interval goes on firing
MaxRetryTicks == MAX_INITIAL_RETRIES + 1
\* steps of COORDS_MAX_AGE_MS the clock of the crowd components advances
MaxCrowdSteps == 1
\* report_crowd_peak calls under way at one time
MaxReports == 2
\* cities LocationService detects where the device moves during a session
MaxCities == 2

\* the counts heartbeat_nearby returns
NearbyCounts == {0, 7, 23}
\* what supabase.rpc('heartbeat_nearby') gives: { data, error } or a throw
HeartbeatRpcOutcomes ==
    {[tag |-> "data", data |-> [tag |-> "number", n |-> n]] : n \in NearbyCounts}
        \cup {[tag |-> "data", data |-> Null], [tag |-> "error"],
              [tag |-> "thrown"]}
\* what supabase.rpc('report_crowd_peak') gives
ReportRpcOutcomes == {"ok", "error", "thrown"}

\* the coordinates ipGeolocate() resolves to
CoordsValues == {[lat |-> 35, lng |-> 51]}
\* the device hash hashDeviceId returns
DeviceHashValue == [tag |-> "hash"]
\* the city LocationService detects
CityValue == [tag |-> "city"]
\* the cities it detects in turn when the device moves
CityValues == <<CityValue, [tag |-> "city2"]>>
\* the listener CrowdReporter.start() registers
ReporterListener == "crowdReporter"

NoAttempt == [pc |-> "free"]
NoReport == [pc |-> "free"]
NoDone == [tag |-> "none"]
NoTick ==
    [valid |-> FALSE, peak |-> 0, cityKnown |-> FALSE, issued |-> 0,
     cities |-> {}]
QuietEvent == [kind |-> "none"]

StateInitial ==
    [nearbyCount |-> 0, approximateCount |-> 0, isActive |-> FALSE,
     locationServicesOff |-> FALSE, error |-> Null]

\* this.state = { ...this.state, ...partial } of stop()
StateStopped(st) ==
    [st EXCEPT !.nearbyCount = 0, !.approximateCount = 0,
               !.isActive = FALSE, !.error = Null]

\* rawCount = typeof data === 'number' ? data : 0
RawCountOf(data) == IF data.tag = "number" THEN data.n ELSE 0

\* the state a successful heartbeat would set if it stored the raw count as
\* the approximate count
StateAfterHeartbeat_RawAsApprox(st, data) ==
    [st EXCEPT !.nearbyCount = RawCountOf(data),
               !.approximateCount = RawCountOf(data),
               !.isActive = TRUE, !.locationServicesOff = FALSE,
               !.error = Null]

\* the state a successful heartbeat sets
StateAfterHeartbeat(st, data) ==
    [st EXCEPT !.nearbyCount = RawCountOf(data),
               !.approximateCount = approximateCount(RawCountOf(data)),
               !.isActive = TRUE, !.locationServicesOff = FALSE,
               !.error = Null]

\* a failure path that would clear the counts
StateAfterFailure_ClearsCounts(st) ==
    [st EXCEPT !.nearbyCount = 0, !.approximateCount = 0]

\* the state after a heartbeat that fails or is skipped: no updateState call
StateAfterFailure(st) == st

\* sendHeartbeat without the catch around the remote call
RpcThrowEscapes_NoCatch(outcome) == outcome.tag = "thrown"

\* whether a throw of the remote call leaves sendHeartbeat: it is caught
RpcThrowEscapes(outcome) == FALSE

\* sendHeartbeat going on without a coordinate
SkipsHeartbeat_OnlyWithoutHash(hash, coords) == hash = Null

\* the two early returns of sendHeartbeat
SkipsHeartbeat(hash, coords) == hash = Null \/ coords = Null

\* the listener of CrowdReporter if it stored every count it is given
Listener_StoresLatest(peak, st) == st.nearbyCount

\* the listener of CrowdReporter: raw = state.nearbyCount || 0, kept if larger
Listener(peak, st) ==
    LET raw == st.nearbyCount
    IN  IF raw > peak THEN raw ELSE peak

\* reportPeak sending whenever the approximation is positive
ReportIsDue_NoDedupe(approx, last, cityNow) == approx > 0 /\ cityNow # Null

\* the two early returns of reportPeak
ReportIsDue(approx, last, cityNow) ==
    ~(approx <= 0 \/ approx = last) /\ cityNow # Null

\* cachedCoords && (Date.now() - cachedCoordsTime) < COORDS_MAX_AGE_MS
CoordsFresh(coords, at, now) == coords # Null /\ (now - at) < COORDS_MAX_AGE_MS

\* getCoords without the fall-back to the cached coordinates
CoordsAfterLookup_NoFallback(result, cached) == result

\* what getCoords returns once getCoordsFromIP has given `result`
CoordsAfterLookup(result, cached) ==
    IF result = Null /\ cached # Null THEN cached ELSE result

CrowdInitWith(starts, overlap, cities) ==
    /\ startsFollowed = starts
    /\ citiesFollowed = cities
    /\ attemptsFollowed = overlap
    /\ counterStarted = FALSE
    /\ deviceHash = Null
    /\ heartbeatTimer = 0
    /\ retryTimer = 0
    /\ steadyLive = {}
    /\ retryLive = {}
    /\ retries = [t \in 1..starts |-> 0]
    /\ startCalls = 0
    /\ awaitingHash = {}
    /\ cachedCoords = Null
    /\ cachedCoordsTime = 0
    /\ crowdNow = COORDS_MAX_AGE_MS
    /\ crowdState = StateInitial
    /\ listeners = {}
    /\ attempts = [i \in 1..MaxAttempts |-> NoAttempt]
    /\ hbDone = NoDone
    /\ hbBegan = FALSE
    /\ reporterStarted = FALSE
    /\ peakRawCount = 0
    /\ lastReportedPeak = 0
    /\ reportTimer = FALSE
    /\ unsubscribeSource = FALSE
    /\ currentCity = Null
    /\ reports = [j \in 1..MaxReports |-> NoReport]
    /\ maxDelivered = 0
    /\ rpEvent = QuietEvent
    /\ lastTick = NoTick

\* MaxStarts start() calls are followed, MaxAttempts heartbeats may overlap
CrowdInit == CrowdInitWith(MaxStarts, MaxAttempts, 1)

\* the crowd components before usePresence starts them
CrowdIdle == CrowdInit

FreeAttempts == {i \in 1..attemptsFollowed : attempts[i] = NoAttempt}
FreeReports == {j \in 1..MaxReports : reports[j] = NoReport}
LowestOf(S) == CHOOSE i \in S : \A k \in S : i <= k

\* sendHeartbeat() up to its first await that suspends: with fresh cached
\* coordinates getCoords returns at once and heartbeat_nearby is called,
\* otherwise ipGeolocate() is awaited
NewAttempt(kind, t, hash) ==
    IF CoordsFresh(cachedCoords, cachedCoordsTime, crowdNow)
    THEN [pc |-> "rpc", kind |-> kind, timer |-> t,
          device_hash_param |-> hash, coords |-> cachedCoords]
    ELSE [pc |-> "geo", kind |-> kind, timer |-> t,
          device_hash_param |-> Null, coords |-> Null]

\* what a finished sendHeartbeat() leaves for the observer: how it ended, what
\* it returned, the counts before a failed attempt, the intervals live before
Done(how, kind, t, threw, success, data, rpcIssued, notified, rt) ==
    [tag |-> "done", how |-> how, kind |-> kind, threw |-> threw,
     result |-> success, data |-> data,
     before |-> IF success THEN Null
                ELSE [nearbyCount |-> crowdState.nearbyCount,
                      approximateCount |-> crowdState.approximateCount],
     rpcIssued |-> rpcIssued, notified |-> notified,
     steadyBefore |-> steadyLive, retryBefore |-> retryLive,
     exhausted |-> (kind = "retry" /\ rt[t] >= MAX_INITIAL_RETRIES)]

\* what a getCoords() that went to ipGeolocate() and returned coordinates
\* leaves for the observer: the result of the lookup, the coordinates
\* returned, and the cache as it was before
Looked(result, coords) ==
    [tag |-> "lookup", result |-> result, coords |-> coords,
     cachedBefore |-> cachedCoords, timeBefore |-> cachedCoordsTime]

\* the code that runs when sendHeartbeat() settles: the .then of the first
\* heartbeat, the rest of the retry callback, nothing for the steady timer
Complete(kind, t, success, rt) ==
    IF kind = "first" /\ ~success
    THEN /\ retries' = [rt EXCEPT ![t] = 0]
         /\ retryTimer' = t
         /\ retryLive' = retryLive \cup {t}
    ELSE IF kind = "retry" /\ (success \/ rt[t] >= MAX_INITIAL_RETRIES)
    THEN /\ retries' = rt
         /\ retryLive' = retryLive \ {retryTimer}
         /\ retryTimer' = 0
    ELSE /\ retries' = rt
         /\ UNCHANGED <<retryTimer, retryLive>>

\* this.sendHeartbeat() is called
Begin(kind, t, hash, rt) ==
    /\ hbBegan' = TRUE
    /\ IF hash = Null
       THEN /\ attempts' = attempts
            /\ hbDone' = Done("nohash", kind, t, FALSE, FALSE, Null, FALSE,
                              FALSE, rt)
            /\ Complete(kind, t, FALSE, rt)
       ELSE /\ attempts' = [attempts EXCEPT
                               ![LowestOf(FreeAttempts)] = NewAttempt(kind, t, hash)]
            /\ hbDone' = NoDone
            /\ retries' = rt
            /\ UNCHANGED <<retryTimer, retryLive>>

\* notify(): the listener of CrowdReporter, when subscribed, is given `st`
Notify(st) ==
    IF ReporterListener \in listeners
    THEN /\ peakRawCount' = Listener(peakRawCount, st)
         /\ maxDelivered' = Max(maxDelivered, st.nearbyCount)
    ELSE UNCHANGED <<peakRawCount, maxDelivered>>

\* what no method of ServerCrowdCounter touches in CrowdReporter
ReporterUntouched ==
    /\ rpEvent' = QuietEvent
    /\ UNCHANGED <<reporterStarted, lastReportedPeak, reportTimer,
                   unsubscribeSource, currentCity, reports, lastTick>>

\* what no method of CrowdReporter touches in ServerCrowdCounter
CounterUntouched ==
    /\ hbDone' = NoDone
    /\ hbBegan' = FALSE
    /\ UNCHANGED <<counterStarted, deviceHash, heartbeatTimer, retryTimer,
                   steadyLive, retryLive, retries, startCalls, awaitingHash,
                   cachedCoords, cachedCoordsTime, crowdNow, crowdState,
                   attempts>>

\* start() up to `await getAnonymousId()`
Start ==
    /\ ~counterStarted
    /\ startCalls < startsFollowed
    /\ counterStarted' = TRUE
    /\ startCalls' = startCalls + 1
    /\ awaitingHash' = awaitingHash \cup {startCalls + 1}
    /\ hbDone' = NoDone
    /\ hbBegan' = FALSE
    /\ UNCHANGED <<deviceHash, heartbeatTimer, retryTimer, steadyLive,
                   retryLive, retries, cachedCoords, cachedCoordsTime,
                   crowdNow, crowdState, attempts, listeners, peakRawCount,
                   maxDelivered>>
    /\ ReporterUntouched
    /\ UNCHANGED notCrowdVars

\* start() after the device hash is computed: the first heartbeat is sent
\* and the steady interval is set
StartResumes ==
    \E s \in awaitingHash :
        /\ FreeAttempts # {}
        /\ awaitingHash' = awaitingHash \ {s}
        /\ deviceHash' = DeviceHashValue
        /\ Begin("first", s, DeviceHashValue, retries)
        /\ heartbeatTimer' = s
        /\ steadyLive' = steadyLive \cup {s}
        /\ UNCHANGED <<counterStarted, startCalls, cachedCoords, cachedCoordsTime,
                       crowdNow, crowdState, listeners, peakRawCount,
                       maxDelivered>>
        /\ ReporterUntouched
        /\ UNCHANGED notCrowdVars

\* stop()
Stop ==
    /\ counterStarted' = FALSE
    /\ cachedCoords' = Null
    /\ cachedCoordsTime' = 0
    /\ steadyLive' = steadyLive \ {heartbeatTimer}
    /\ heartbeatTimer' = 0
    /\ retryLive' = retryLive \ {retryTimer}
    /\ retryTimer' = 0
    /\ crowdState' = StateStopped(crowdState)
    /\ Notify(crowdState')
    /\ hbDone' = NoDone
    /\ hbBegan' = FALSE
    /\ UNCHANGED <<deviceHash, retries, startCalls, awaitingHash, crowdNow,
                   attempts, listeners>>
    /\ ReporterUntouched
    /\ UNCHANGED notCrowdVars

\* the steady interval fires
SteadyTick ==
    \E t \in steadyLive :
        /\ FreeAttempts # {}
        /\ Begin("steady", t, deviceHash, retries)
        /\ UNCHANGED <<counterStarted, deviceHash, heartbeatTimer, steadyLive,
                       startCalls, awaitingHash, cachedCoords,
                       cachedCoordsTime, crowdNow, crowdState, listeners,
                       peakRawCount, maxDelivered>>
        /\ ReporterUntouched
        /\ UNCHANGED notCrowdVars

\* the retry interval of start() call t fires: retries++, then sendHeartbeat()
RetryTickOf(t) ==
        /\ t \in retryLive
        /\ FreeAttempts # {}
        /\ Begin("retry", t, deviceHash,
                 [retries EXCEPT ![t] = Min(@ + 1, MaxRetryTicks)])
        /\ UNCHANGED <<counterStarted, deviceHash, heartbeatTimer, steadyLive,
                       startCalls, awaitingHash, cachedCoords,
                       cachedCoordsTime, crowdNow, crowdState, listeners,
                       peakRawCount, maxDelivered>>
        /\ ReporterUntouched
        /\ UNCHANGED notCrowdVars

\* a retry interval fires
RetryTick == \E t \in DOMAIN retries : RetryTickOf(t)

\* ipGeolocate() settles and getCoords returns to sendHeartbeat() call i:
\* heartbeat_nearby is called, or the heartbeat is skipped for want of
\* coordinates
GetCoordsReturnsTo(i) ==
    \E result \in CoordsValues \cup {Null} :
        LET a == attempts[i]
            coords == CoordsAfterLookup(result, cachedCoords)
        IN  /\ a.pc = "geo"
            /\ cachedCoords' = IF result # Null THEN result ELSE cachedCoords
            /\ cachedCoordsTime' =
                   IF result # Null THEN crowdNow ELSE cachedCoordsTime
            /\ IF SkipsHeartbeat(deviceHash, coords)
               THEN /\ attempts' = [attempts EXCEPT ![i] = NoAttempt]
                    /\ hbDone' = Done("nocoords", a.kind, a.timer, FALSE,
                                      FALSE, Null, FALSE, FALSE, retries)
                    /\ Complete(a.kind, a.timer, FALSE, retries)
               ELSE /\ attempts' = [attempts EXCEPT ![i] =
                           [a EXCEPT !.pc = "rpc",
                                     !.device_hash_param = deviceHash,
                                     !.coords = coords]]
                    /\ hbDone' = Looked(result, coords)
                    /\ UNCHANGED <<retries, retryTimer, retryLive>>
            /\ hbBegan' = FALSE
            /\ UNCHANGED <<counterStarted, deviceHash, heartbeatTimer, steadyLive,
                           startCalls, awaitingHash, crowdNow, crowdState,
                           listeners, peakRawCount, maxDelivered>>
            /\ ReporterUntouched
            /\ UNCHANGED notCrowdVars

GetCoordsReturns == \E i \in 1..MaxAttempts : GetCoordsReturnsTo(i)

\* supabase.rpc('heartbeat_nearby') settles and sendHeartbeat() call i returns
HeartbeatRpcReturnsTo(i) ==
    \E outcome \in HeartbeatRpcOutcomes :
        LET a == attempts[i]
            success == outcome.tag = "data"
            how == IF success THEN "ok"
                   ELSE IF outcome.tag = "error" THEN "rpcerror" ELSE "thrown"
            data == IF success THEN outcome.data ELSE Null
        IN  /\ a.pc = "rpc"
            /\ attempts' = [attempts EXCEPT ![i] = NoAttempt]
            /\ crowdState' = IF success
                             THEN StateAfterHeartbeat(crowdState, data)
                             ELSE StateAfterFailure(crowdState)
            /\ IF success THEN Notify(crowdState')
                          ELSE UNCHANGED <<peakRawCount, maxDelivered>>
            /\ hbDone' = Done(how, a.kind, a.timer, RpcThrowEscapes(outcome),
                              success, data, TRUE, success, retries)
            /\ Complete(a.kind, a.timer, success, retries)
            /\ hbBegan' = FALSE
            /\ UNCHANGED <<counterStarted, deviceHash, heartbeatTimer, steadyLive,
                           startCalls, awaitingHash, cachedCoords,
                           cachedCoordsTime, crowdNow, listeners>>
            /\ ReporterUntouched
            /\ UNCHANGED notCrowdVars

HeartbeatRpcReturns == \E i \in 1..MaxAttempts : HeartbeatRpcReturnsTo(i)

\* COORDS_MAX_AGE_MS go by
CrowdClockTick ==
    /\ crowdNow < (1 + MaxCrowdSteps) * COORDS_MAX_AGE_MS
    /\ crowdNow' = crowdNow + COORDS_MAX_AGE_MS
    /\ hbDone' = NoDone
    /\ hbBegan' = FALSE
    /\ UNCHANGED <<counterStarted, deviceHash, heartbeatTimer, retryTimer,
                   steadyLive, retryLive, retries, startCalls, awaitingHash,
                   cachedCoords, cachedCoordsTime, crowdState, attempts,
                   listeners, peakRawCount, maxDelivered>>
    /\ ReporterUntouched
    /\ UNCHANGED notCrowdVars

\* CrowdReporter.start()
ReporterStart ==
    /\ ~reporterStarted
    /\ reporterStarted' = TRUE
    /\ listeners' = listeners \cup {ReporterListener}
    /\ unsubscribeSource' = TRUE
    /\ peakRawCount' = Listener(peakRawCount, crowdState)
    /\ maxDelivered' = Max(maxDelivered, crowdState.nearbyCount)
    /\ reportTimer' = TRUE
    /\ rpEvent' = [kind |-> "start"]
    /\ UNCHANGED <<lastReportedPeak, currentCity, reports, lastTick>>
    /\ CounterUntouched
    /\ UNCHANGED notCrowdVars

\* CrowdReporter.stop()
ReporterStop ==
    /\ reporterStarted' = FALSE
    /\ reportTimer' = FALSE
    /\ listeners' = IF unsubscribeSource THEN listeners \ {ReporterListener}
                    ELSE listeners
    /\ unsubscribeSource' = FALSE
    /\ peakRawCount' = 0
    /\ lastReportedPeak' = 0
    /\ maxDelivered' = 0
    /\ lastTick' = NoTick
    /\ rpEvent' = [kind |-> "stop"]
    /\ UNCHANGED <<currentCity, reports>>
    /\ CounterUntouched
    /\ UNCHANGED notCrowdVars

\* the report interval fires: reportPeak() up to its await
ReportTick ==
    LET approx == approximateCount(peakRawCount)
        due == ReportIsDue(approx, lastReportedPeak, currentCity)
    IN  /\ reportTimer
        /\ FreeReports # {}
        /\ reports' = IF due
                      THEN [reports EXCEPT ![LowestOf(FreeReports)] =
                               [pc |-> "rpc", p_city |-> currentCity,
                                p_count |-> approx]]
                      ELSE reports
        /\ rpEvent' = [kind |-> "tick", issued |-> due, approx |-> approx,
                       peak |-> peakRawCount, last |-> lastReportedPeak,
                       city |-> currentCity,
                       again |-> (/\ lastTick.valid
                                  /\ lastTick.peak = peakRawCount
                                  /\ lastTick.cityKnown
                                  /\ currentCity # Null),
                       prevIssued |-> lastTick.issued]
        /\ lastTick' = [valid |-> TRUE, peak |-> peakRawCount,
                        cityKnown |-> (currentCity # Null),
                        issued |-> IF due THEN approx ELSE lastTick.issued,
                        cities |-> IF due THEN lastTick.cities \cup {currentCity}
                                   ELSE lastTick.cities]
        /\ UNCHANGED <<reporterStarted, peakRawCount, lastReportedPeak,
                       reportTimer, unsubscribeSource, currentCity,
                       maxDelivered, listeners>>
        /\ CounterUntouched
        /\ UNCHANGED notCrowdVars

\* supabase.rpc('report_crowd_peak') settles
ReportRpcReturns ==
    \E j \in 1..MaxReports, outcome \in ReportRpcOutcomes :
        /\ reports[j] # NoReport
        /\ reports' = [reports EXCEPT ![j] = NoReport]
        /\ lastReportedPeak' = IF outcome = "ok" THEN reports[j].p_count
                               ELSE lastReportedPeak
        /\ rpEvent' = [kind |-> "reported", ok |-> (outcome = "ok"),
                       approx |-> reports[j].p_count]
        /\ UNCHANGED <<reporterStarted, peakRawCount, reportTimer,
                       unsubscribeSource, currentCity, maxDelivered,
                       lastTick, listeners>>
        /\ CounterUntouched
        /\ UNCHANGED notCrowdVars

\* LocationService.pollCity() finds a city
PollCity ==
    /\ \E c \in 1..citiesFollowed :
          /\ currentCity # CityValues[c]
          /\ currentCity' = CityValues[c]
    /\ rpEvent' = QuietEvent
    /\ UNCHANGED <<reporterStarted, peakRawCount, lastReportedPeak,
                   reportTimer, unsubscribeSource, reports, maxDelivered,
                   lastTick, listeners>>
    /\ CounterUntouched
    /\ UNCHANGED notCrowdVars

\* LocationService.stop()
LocationStop ==
    /\ currentCity # Null
    /\ currentCity' = Null
    /\ rpEvent' = QuietEvent
    /\ UNCHANGED <<reporterStarted, peakRawCount, lastReportedPeak,
                   reportTimer, unsubscribeSource, reports, maxDelivered,
                   lastTick, listeners>>
    /\ CounterUntouched
    /\ UNCHANGED notCrowdVars

(***************************************************************************)
(* ServerCrowdCounter.subscribe, notify and updateState                    *)
(***************************************************************************)
\* updateState() calls followed
MaxChanges == 2
\* states a listener is given before it subscribes once more
MaxDeliveries == 2

\* The listeners: the one of CrowdReporter.start(), the one of useCrowdCount,
\* and one of another caller
ListenerIds == {"crowdReporter", "useCrowdCount", "another"}

\* The partial states updateState() is called with: by stop(), and by
\* sendHeartbeat() with the count of heartbeat_nearby
StatesAfterUpdate(st) ==
    {StateStopped(st)}
        \cup {StateAfterHeartbeat(st, [tag |-> "number", n |-> n]) :
                 n \in NearbyCounts \ {0}}

NeverSubscribed == [from |-> 0, to |-> 0, base |-> 0]

\* notify() without the try/catch around each call: the first listener that
\* throws ends the loop
NotifiedListeners_NoCatch(order, throwers) ==
    {order[i] : i \in {j \in DOMAIN order :
                         \A k \in 1..(j - 1) : order[k] \notin throwers}}

\* notify(): for (const listener of this.listeners) try { listener(state) }
\* catch {} -- the listeners that are called, given those that throw
NotifiedListeners(order, throwers) ==
    {order[i] : i \in DOMAIN order}

SubInit ==
    /\ subState = StateInitial
    /\ subOrder = <<>>
    /\ subProduced = <<StateInitial>>
    /\ subReceived = [l \in ListenerIds |-> <<>>]
    /\ subSpan = [l \in ListenerIds |-> NeverSubscribed]
    /\ subHandle = [l \in ListenerIds |-> FALSE]
    /\ subEvent = [kind |-> "none"]

SubIdle == SubInit

\* subscribe(listener): the listener is added and called with this.state at
\* once; when that call throws, subscribe() throws and its caller gets no
\* unsubscribe function
Subscribe ==
    \E l \in ListenerIds, throws \in BOOLEAN :
        /\ \A i \in DOMAIN subOrder : subOrder[i] # l
        /\ Len(subReceived[l]) < MaxDeliveries
        /\ subOrder' = Append(subOrder, l)
        /\ subReceived' = [subReceived EXCEPT ![l] = Append(@, subState)]
        /\ subSpan' = [subSpan EXCEPT
                          ![l] = [from |-> Len(subProduced), to |-> 0,
                                  base |-> Len(subReceived[l])]]
        /\ subHandle' = [subHandle EXCEPT ![l] = ~throws]
        /\ subEvent' = [kind |-> "subscribe", listener |-> l,
                        throwers |-> IF throws THEN {l} ELSE {}]
        /\ UNCHANGED <<subState, subProduced>>
        /\ UNCHANGED notSubVars

\* the function subscribe() returned is called: this.listeners.delete(listener)
Unsubscribe ==
    \E l \in ListenerIds :
        /\ subHandle[l]
        /\ \E i \in DOMAIN subOrder : subOrder[i] = l
        /\ subOrder' = SelectSeq(subOrder, LAMBDA x : x # l)
        /\ subSpan' = [subSpan EXCEPT ![l].to = Len(subProduced)]
        /\ subHandle' = [subHandle EXCEPT ![l] = FALSE]
        /\ subEvent' = [kind |-> "unsubscribe", listener |-> l, throwers |-> {}]
        /\ UNCHANGED <<subState, subProduced, subReceived>>
        /\ UNCHANGED notSubVars

\* updateState(partial): this.state is replaced and notify() calls the
\* listeners in the order of insertion, some of which throw
UpdateCrowdState ==
    \E st \in StatesAfterUpdate(subState), throwers \in SUBSET ListenerIds :
        /\ Len(subProduced) <= MaxChanges
        /\ throwers \subseteq {subOrder[i] : i \in DOMAIN subOrder}
        /\ subState' = st
        /\ subProduced' = Append(subProduced, st)
        /\ subReceived' =
               [l \in ListenerIds |->
                   IF l \in NotifiedListeners(subOrder, throwers)
                   THEN Append(subReceived[l], st)
                   ELSE subReceived[l]]
        /\ subEvent' = [kind |-> "update", listener |-> "", throwers |-> throwers]
        /\ UNCHANGED <<subOrder, subSpan, subHandle>>
        /\ UNCHANGED notSubVars

(***************************************************************************)
(* useSloganVote (hooks/useSloganVote.ts): vote() on one slogan            *)
(***************************************************************************)
\* voteState is the entry of the slogan in the React state `votes`. A state
\* update counts as rendered when it is made, so that the vote function in
\* the caller's hands closes over the latest state. The refresh of the map by
\* fetchVotes() after the first one is not followed. userVote null is written
\* 0: the code stores null, 1 or -1.

\* vote() calls that get past the voter id check
MaxVotes == 3
\* Largest number of likes, and of dislikes, that fetchVotes() found
MaxInitialVotes == 1
\* vote() calls followed together with the loads of fetchVotes()
MaxLedgerVotes == 1

\* value: 1 | -1
VoteValues == {1, -1}
\* submit_vote: 'ok', 'rate_limited', an error in the answer, a thrown error
SubmitVoteOutcomes == {"ok", "rate_limited", "error", "thrown"}

Tally(score, likes, dislikes, userVote) ==
    [score |-> score, likes |-> likes, dislikes |-> dislikes,
     userVote |-> userVote]

\* What fetchVotes() stores for a slogan: the votes counted by side, the
\* user's own vote among them, and their balance as the score
InitialTallies ==
    {Tally(t[1] - t[2], t[1], t[2], t[3]) :
        t \in {x \in (0..MaxInitialVotes) \X (0..MaxInitialVotes) \X {-1, 0, 1} :
                 /\ x[3] = 1 => x[1] >= 1
                 /\ x[3] = -1 => x[2] >= 1}}

\* isToggle
IsToggle(currentUserVote, value) == currentUserVote = value

\* newUserVote
NewUserVote(currentUserVote, value) ==
    IF IsToggle(currentUserVote, value) THEN 0 ELSE value

\* scoreDelta
ScoreDelta(currentUserVote, value) ==
    IF IsToggle(currentUserVote, value) THEN -value
    ELSE IF currentUserVote # 0 THEN value - currentUserVote
    ELSE value

\* likesDelta when a switch of sides leaves the old bucket as it was
LikesDelta_KeepsOldBucket(currentUserVote, value) ==
    IF IsToggle(currentUserVote, value)
    THEN (IF value = 1 THEN -1 ELSE 0)
    ELSE (IF value = 1 THEN 1 ELSE 0)

\* likesDelta
LikesDelta(currentUserVote, value) ==
    IF IsToggle(currentUserVote, value)
    THEN (IF value = 1 THEN -1 ELSE 0)
    ELSE IF value = 1 THEN 1
    ELSE IF currentUserVote = 1 THEN -1
    ELSE 0

\* dislikesDelta
DislikesDelta(currentUserVote, value) ==
    IF IsToggle(currentUserVote, value)
    THEN (IF value = 1 THEN 0 ELSE -1)
    ELSE IF value = 1 THEN (IF currentUserVote = -1 THEN -1 ELSE 0)
    ELSE 1

\* The entry the optimistic setVotes stores
OptimisticTally(current, value) ==
    Tally(current.score + ScoreDelta(current.userVote, value),
          current.likes + LikesDelta(current.userVote, value),
          current.dislikes + DislikesDelta(current.userVote, value),
          NewUserVote(current.userVote, value))

\* p_vote carrying the direction whatever the call did
SubmittedVote_AlwaysDirection(currentUserVote, value) == value

\* p_vote: isToggle ? 0 : value
SubmittedVote(currentUserVote, value) ==
    IF IsToggle(currentUserVote, value) THEN 0 ELSE value

\* A rollback that restores the user's vote and leaves the counts
RolledBack_KeepsCounts(call, entry) ==
    [entry EXCEPT !.userVote = call.current.userVote]

\* The entry the rollback stores, over the entry the state holds: the values
\* the call read before its update
RolledBack(call, entry) ==
    Tally(call.current.score, call.current.likes, call.current.dislikes,
          call.current.userVote)

QuietVote == [kind |-> "none"]

VoteInit ==
    /\ votesFollowed = MaxVotes
    /\ voterIdRef = FALSE
    /\ voteState \in InitialTallies
    /\ voteLog = <<>>
    /\ votePc = 0
    /\ voteEvent = QuietVote

VoteIdle ==
    /\ votesFollowed = MaxVotes
    /\ voterIdRef = FALSE
    /\ voteState = Tally(0, 0, 0, 0)
    /\ voteLog = <<>>
    /\ votePc = 0
    /\ voteEvent = [kind |-> "idle"]

\* init(): getAnonymousId() has resolved
VoterIdLoaded ==
    /\ ~voterIdRef
    /\ votePc = 0
    /\ voterIdRef' = TRUE
    /\ voteEvent' = QuietVote
    /\ UNCHANGED <<voteState, voteLog, votePc>>
    /\ UNCHANGED notVoteVars

\* vote(slangId, value) up to the optimistic setVotes; without a voter id it
\* returns at once
Vote ==
    \E value \in VoteValues :
        /\ votePc = 0
        /\ IF ~voterIdRef
           THEN /\ voteEvent' = [kind |-> "dropped", value |-> value,
                                 before |-> voteState, after |-> voteState]
                /\ UNCHANGED <<voteState, voteLog, votePc>>
           ELSE /\ Len(voteLog) < votesFollowed
                /\ voteState' = OptimisticTally(voteState, value)
                /\ voteLog' = Append(voteLog,
                                  [pc |-> "updated", value |-> value,
                                   current |-> voteState, p_vote |-> 0,
                                   updatedFirst |-> FALSE,
                                   alone |-> \A i \in DOMAIN voteLog :
                                       voteLog[i].pc \in {"ok", "rejected"}])
                /\ votePc' = Len(voteLog) + 1
                /\ voteEvent' = [kind |-> "vote", value |-> value,
                                 before |-> voteState, after |-> voteState']
        /\ UNCHANGED voterIdRef
        /\ UNCHANGED notVoteVars

\* vote() from the optimistic setVotes to its await: supabase.rpc('submit_vote')
\* is issued
SubmitVote ==
    /\ votePc # 0
    /\ voteLog' = [voteLog EXCEPT
                     ![votePc].pc = "rpc",
                     ![votePc].p_vote = SubmittedVote(voteLog[votePc].current.userVote,
                                                      voteLog[votePc].value),
                     ![votePc].updatedFirst =
                         (voteState = OptimisticTally(voteLog[votePc].current,
                                                      voteLog[votePc].value))]
    /\ votePc' = 0
    /\ voteEvent' = [kind |-> "submit", call |-> votePc]
    /\ UNCHANGED <<voterIdRef, voteState>>
    /\ UNCHANGED notVoteVars

\* submit_vote settles: 'rate_limited' and every failure roll the entry back
SubmitVoteReturns ==
    \E j \in DOMAIN voteLog, outcome \in SubmitVoteOutcomes :
        /\ votePc = 0
        /\ voteLog[j].pc = "rpc"
        /\ voteLog' = [voteLog EXCEPT
                         ![j].pc = IF outcome = "ok" THEN "ok" ELSE "rejected"]
        /\ voteState' = IF outcome = "ok" THEN voteState
                        ELSE RolledBack(voteLog[j], voteState)
        /\ voteEvent' = [kind |-> "returned", call |-> j,
                         accepted |-> (outcome = "ok"), before |-> voteState]
        /\ UNCHANGED <<voterIdRef, votePc>>
        /\ UNCHANGED notVoteVars

\* fetchVotes(): the three queries, as far as they concern the slogan. Each
\* answers { data, error }; a failed query has data null.
QueryFailed == [tag |-> "failed"]
\* slangs.select('id, vote_score'): no row for the slogan, or its vote_score
ScoresResults ==
    {QueryFailed, [tag |-> "rows", found |-> FALSE, vote_score |-> 0]}
        \cup {[tag |-> "rows", found |-> TRUE, vote_score |-> s] :
                 s \in (-MaxInitialVotes)..MaxInitialVotes}
\* slogan_votes.select('slang_id, vote'): the rows of the slogan, by side
AllVotesResults ==
    {QueryFailed}
        \cup {[tag |-> "rows", likes |-> l, dislikes |-> d] :
                 l \in 0..MaxInitialVotes, d \in 0..MaxInitialVotes}
\* slogan_votes.select(..).eq('voter_id', voterId): the user's row, if any
UserVotesResults ==
    {QueryFailed, [tag |-> "rows", found |-> FALSE, vote |-> 0]}
        \cup {[tag |-> "rows", found |-> TRUE, vote |-> v] : v \in VoteValues}

\* The entry fetchVotes() stores for the slogan (no entry is written as the
\* zero tally, which is what vote() reads for a missing entry): the counts of
\* allVotesRes under the vote_score of scoresRes, then the user's vote put on
\* that entry, or on a new zero entry when the scores gave none
FetchedEntry(scoresRes, allVotesRes, userVotesRes) ==
    LET likes == IF allVotesRes.tag = "rows" THEN allVotesRes.likes ELSE 0
        dislikes == IF allVotesRes.tag = "rows" THEN allVotesRes.dislikes ELSE 0
        listed == scoresRes.tag = "rows" /\ scoresRes.found
        voted == userVotesRes.tag = "rows" /\ userVotesRes.found
    IN  IF listed
        THEN Tally(scoresRes.vote_score, likes, dislikes,
                   IF voted THEN userVotesRes.vote ELSE 0)
        ELSE IF voted THEN Tally(0, 0, 0, userVotesRes.vote)
        ELSE Tally(0, 0, 0, 0)

\* Every entry a load can store
FetchedEntries ==
    {FetchedEntry(scoresRes, allVotesRes, userVotesRes) :
        scoresRes \in ScoresResults, allVotesRes \in AllVotesResults,
        userVotesRes \in UserVotesResults}

\* The hook as mounted: `votes` is an empty map
VoteLedgerInit ==
    /\ votesFollowed = MaxLedgerVotes
    /\ voterIdRef = FALSE
    /\ voteState = Tally(0, 0, 0, 0)
    /\ voteLog = <<>>
    /\ votePc = 0
    /\ voteEvent = QuietVote

\* fetchVotes(), called by init() and by every change of slogan_votes, from
\* the answers of its queries to setVotes(map); without a voter id it returns
\* at once
FetchVotes ==
    \E entry \in FetchedEntries :
        /\ voterIdRef
        /\ votePc = 0
        /\ voteState' = entry
        /\ voteEvent' = [kind |-> "fetched"]
        /\ UNCHANGED <<voterIdRef, voteLog, votePc>>
        /\ UNCHANGED notVoteVars

(***************************************************************************)
(* Quantizer claims                                                        *)
(***************************************************************************)
\* round-half-up of n/d, from the quotient and the remainder
RoundHalfUp(n, d) ==
    LET q == n \div d
        r == n % d
    IN  IF 2 * r >= d THEN q + 1 ELSE q

\* The bucket rule of the specification, applied in order
BucketRule(raw) ==
    CASE raw = 0 -> 0
      [] raw \in 1..10 -> 10
      [] raw \in 11..50 -> RoundHalfUp(raw, 10) * 10
      [] raw \in 51..200 -> RoundHalfUp(raw, 25) * 25
      [] raw \in 201..500 -> RoundHalfUp(raw, 50) * 50
      [] raw > 500 -> RoundHalfUp(raw, 100) * 100

QuantExamples == <<<<0, 0>>, <<7, 10>>, <<23, 20>>, <<47, 50>>, <<120, 125>>,
                   <<430, 450>>, <<650, 700>>>>

\* C1: for every non-negative raw count approximateCount returns what the
\* bucket rule gives (0; 10; round to 10s, 25s, 50s, 100s, a half rounding
\* up), and the seven examples of the specification come out as listed.
C1_BucketRule ==
    qPc = "done" =>
        /\ qOutA = BucketRule(qA)
        /\ qOutB = BucketRule(qB)
        /\ \A i \in 1..Len(QuantExamples) :
              qA = QuantExamples[i][1] => qOutA = QuantExamples[i][2]

\* approximate(120) = 125 and approximate(650) = 700 (a half, rounded up)
\* have been computed
C1_Witness == qPc = "done" /\ qA = 120 /\ qOutA = 125 /\ qB = 650 /\ qOutB = 700

\* C2: approximateCount is monotonically non-decreasing: the two raw counts
\* satisfy qA <= qB, and the results do too.
C2_Monotone ==
    qPc = "done" => (qA <= qB /\ qOutA <= qOutB)

\* the results on both sides of a bucket boundary (50 | 51) have been compared
C2_Witness == qPc = "done" /\ qA = 50 /\ qB = 51 /\ qOutA = 50 /\ qOutB = 50

\* C22, as claimed: for every raw count greater than 0 the value reported,
\* approximateCount(raw), is different from raw.
C22_NeverExactHeadcount ==
    qPc = "done" =>
        /\ qA > 0 => qOutA # qA
        /\ qB > 0 => qOutB # qB

\* The value out stands for more than one headcount around raw
HidesHeadcount(raw, out) ==
    /\ out >= 10
    /\ out % 5 = 0
    /\ approximateCount(raw - 1) = out \/ approximateCount(raw + 1) = out

\* C22, amended: for every raw count greater than 0 the value reported is a
\* multiple of 5, at least 10, and the same value is reported for a
\* neighbouring count (raw - 1 or raw + 1), so that it does not determine the
\* headcount; it may equal raw, as it does for 10.
C22_ReportHidesHeadcount ==
    qPc = "done" =>
        /\ qA > 0 => HidesHeadcount(qA, qOutA)
        /\ qB > 0 => HidesHeadcount(qB, qOutB)

\* ten devices are reported as 10, as eleven are
C22_Witness == qPc = "done" /\ qA = 10 /\ qOutA = 10 /\ qB = 11 /\ qOutB = 10

(***************************************************************************)
(* SyncEngine claims                                                       *)
(***************************************************************************)
\* What the specification says deriveState returns for a stamped snapshot
DeriveStateRule(snap, now) ==
    LET elapsed == snap.elapsedInSlang + (now - snap.receivedAt)
        secondsPerRepeatMs == snap.slang.seconds_per * 1000
    IN  IF elapsed >= snap.totalDuration THEN Null
        ELSE [currentRepeat |->
                 Max(1, snap.slang.repeat_count - (elapsed \div secondsPerRepeatMs)),
              secondsRemaining |->
                 Min(snap.slang.seconds_per,
                     -((-(secondsPerRepeatMs - JsRem(elapsed, secondsPerRepeatMs)))
                         \div 1000)),
              elapsedMs |-> elapsed]

AgreesWithRule(state, rule) ==
    IF rule = Null THEN state = Null
    ELSE /\ state # Null
         /\ state.currentRepeat = rule.currentRepeat
         /\ state.secondsRemaining = rule.secondsRemaining
         /\ state.elapsedInSlang = rule.elapsedMs

\* C3: for a snapshot that carries receivedAt (and an item), calculateLocalState
\* returns what the rule gives from elapsed = elapsedInSlang + (now -
\* receivedAt): null once elapsed >= totalDuration, else the clamped repeat and
\* seconds.
C3_DeriveStateRule ==
    (ranCalculate /\ snapA.slang # Null /\ snapA.hasReceivedAt) =>
        AgreesWithRule(stateA, DeriveStateRule(snapA, nowA))

\* The same for the stamps the code's test lets through (receivedAt # 0) read
\* by a clock that has not gone back: there the rule is what the code computes.
SyncRuleOnTruthyStamp ==
    (ranCalculate /\ snapA.slang # Null /\ snapA.hasReceivedAt
        /\ snapA.receivedAt # 0) =>
        AgreesWithRule(stateA, DeriveStateRule(snapA, nowA))

\* C4: every non-null state calculateLocalState returns has currentRepeat in
\* 1..repeat_count and secondsRemaining in 1..seconds_per.
C4_StateInBounds ==
    (ranCalculate /\ stateA # Null) =>
        /\ 1 <= stateA.currentRepeat
        /\ stateA.currentRepeat <= snapA.slang.repeat_count
        /\ 1 <= stateA.secondsRemaining
        /\ stateA.secondsRemaining <= snapA.slang.seconds_per

\* The bounds hold whenever the elapsed time is not negative
SyncBoundsOnElapsedTime ==
    (ranCalculate /\ stateA # Null /\ stateA.elapsedInSlang >= 0) =>
        /\ stateA.currentRepeat \in 1..snapA.slang.repeat_count
        /\ stateA.secondsRemaining \in 1..snapA.slang.seconds_per

\* C5: for stamped snapshots the results of calculateLocalState and
\* isSlangExpired depend on now and receivedAt only through now - receivedAt
\* and never on startedAt (run B has the same difference, another stamp and
\* another startedAt), and the fallback path is taken only without a stamp.
C5_OnlyTheDifference ==
    (ranCalculate /\ ranExpired /\ snapA.hasReceivedAt) =>
        /\ stateA = stateB
        /\ expiredA = expiredB
        /\ pathA = "received"
        /\ pathB = "received"

\* The same for the stamps the code's test lets through
SyncDifferenceOnTruthyStamps ==
    (ranCalculate /\ ranExpired /\ snapA.hasReceivedAt
        /\ snapA.receivedAt # 0 /\ snapB.receivedAt # 0) =>
        /\ stateA = stateB
        /\ expiredA = expiredB
        /\ pathA = "received"
        /\ pathB = "received"


\* C33: for every snapshot with a non-null slang and every now,
\* calculateLocalState returns null exactly when isSlangExpired returns true,
\* on the receivedAt path (run A or B stamped) and on the wall-clock fallback
\* path (unstamped, or stamped 0).
C33_NullExactlyWhenExpired ==
    (ranCalculate /\ ranExpired /\ snapA.slang # Null) =>
        /\ (stateA = Null) <=> expiredA
        /\ (stateB = Null) <=> expiredB

\* Both paths at once, one expired on the boundary and one still running
C33_Witness ==
    /\ ranCalculate /\ ranExpired /\ snapA.slang # Null
    /\ pathA = "received" /\ pathB = "fallback"
    /\ stateA = Null /\ expiredA
    /\ Elapsed(snapA, nowA) = snapA.totalDuration
    /\ stateB # Null /\ ~expiredB

\* C34: for a fixed snapshot read at now1 <= now2 (runs A and B of the display
\* loop), when both states are non-null the elapsed time does not go down, the
\* repeat does not go up and, while the repeat is the same, the seconds
\* remaining do not go up; and once calculateLocalState has returned null it
\* returns null at every later now.
C34_CountdownMovesForward ==
    (ranCalculate /\ snapA = snapB /\ nowA <= nowB) =>
        /\ (stateA # Null /\ stateB # Null) =>
              /\ stateA.elapsedInSlang <= stateB.elapsedInSlang
              /\ stateA.currentRepeat >= stateB.currentRepeat
              /\ (stateA.currentRepeat = stateB.currentRepeat =>
                    stateA.secondsRemaining >= stateB.secondsRemaining)
        /\ (stateA = Null => stateB = Null)

\* The repeat has gone down between the two reads
C34_Witness ==
    /\ ranCalculate /\ snapA = snapB /\ nowA < nowB
    /\ stateA # Null /\ stateB # Null
    /\ stateA.currentRepeat > stateB.currentRepeat
    /\ stateA.secondsRemaining < stateB.secondsRemaining

\* The seconds have gone down within one repeat, on the fallback path
CountdownWithinRepeat ==
    /\ ranCalculate /\ snapA = snapB /\ nowA < nowB
    /\ stateA # Null /\ stateB # Null
    /\ pathA = "fallback"
    /\ stateA.currentRepeat = stateB.currentRepeat
    /\ stateA.secondsRemaining > stateB.secondsRemaining

\* The snapshot ran out between the two reads
CountdownRunsOut ==
    /\ ranCalculate /\ snapA = snapB /\ snapA.slang # Null
    /\ stateA # Null /\ stateB = Null

(***************************************************************************)
(* useSyncedSlogan claims                                                  *)
(***************************************************************************)
\* C6: the tick issues at most one fetch for one expired snapshot, whatever
\* the fetch's outcome: tickFetches counts the fetches that the expiry branch
\* of updateState issued since the stored response was last replaced.
C6_OneRefetchPerExpiry == tickFetches <= 1

\* While a fetch is in flight the ticks issue no second one
HookNoFetchWhileFetching == rpcInFlight <= 1

\* C30: at most one get_current_slang fetch is in flight at any time and the
\* in-flight flag is set exactly while it is; a step taken while a fetch is in
\* flight (a tick on an expired snapshot, a realtime change, a manual
\* refetch) starts no further fetch; and every step that ends a fetch, with a
\* slang, with no data or with an error, leaves the flag clear unless the
\* effect run by the new response started the next fetch in that same step.
C30_OneFetchInFlight ==
    /\ [](rpcInFlight <= 1 /\ (isFetchingRef <=> rpcInFlight = 1))
    /\ [][/\ isFetchingRef => rpcInFlight' <= rpcInFlight
          /\ (rpcInFlight' < rpcInFlight) => ~isFetchingRef']_vars

\* a fetch has failed: the error is shown, the flag is clear and the interval
\* of the earlier response keeps running, free to fetch again
C30_Witness ==
    /\ hookError = "error"
    /\ ~isFetchingRef
    /\ rpcInFlight = 0
    /\ intervalOn
    /\ serverResponseRef # Null


(***************************************************************************)
(* ipGeolocate claims                                                      *)
(***************************************************************************)
CallsWaiting == {c \in DOMAIN calls : calls[c].returned = Pending}
CallsStarted == {c \in DOMAIN calls : calls[c].how = "started"}

\* C7: the calls made while no fresh cache exists and before the network has
\* answered share one in-flight resolution: at most one resolution is under
\* way, every waiting call is attached to it, one /api/geo request and at most
\* one race were issued per resolution started, and a call that was attached
\* has, once the resolution ended, exactly that resolution's result.
C7_SingleFlight ==
    /\ Cardinality(ActiveResolutions) <= 1
    /\ \A c \in CallsWaiting : calls[c].res \in ActiveResolutions
    /\ netVercel = Cardinality(CallsStarted)
    /\ netVercel = Len(resolutions)
    /\ netRaces <= netVercel
    /\ \A c \in DOMAIN calls :
          (calls[c].how # "cache" /\ calls[c].res \notin ActiveResolutions) =>
              calls[c].returned = resolutions[calls[c].res].result

\* three calls were made before any response; one request went out, the race
\* was run once and all three got its result
C7_Witness ==
    /\ Len(calls) = MaxCalls
    /\ \A c \in DOMAIN calls : calls[c].at = GeoStepMs /\ calls[c].res = 1
    /\ \A c \in DOMAIN calls : calls[c].returned = resolutions[1].result
    /\ resolutions[1].external = "won"
    /\ netVercel = 1
    /\ netRaces = 1

\* The time from the last successful resolution to call c
SinceSuccess(c) == calls[c].at - calls[c].lastSuccess.at

\* C8 as stated: after a successful resolution a call less than five minutes
\* later returns the cached coordinate and starts no network access, and a
\* call at or after the end of the window starts a new resolution.
C8_StartsNewResolution ==
    /\ netVercel = Cardinality(CallsStarted)
    /\ \A c \in DOMAIN calls :
          calls[c].lastSuccess # NoSuccess =>
              IF SinceSuccess(c) < 5 * 60 * 1000
              THEN /\ calls[c].how = "cache"
                   /\ calls[c].returned = calls[c].lastSuccess.result
              ELSE calls[c].how = "started"

\* C8 as amended: a call at or after the end of the window starts a new
\* resolution unless one is already under way, which it joins.
C8_FreshnessWindow ==
    /\ netVercel = Cardinality(CallsStarted)
    /\ \A c \in DOMAIN calls :
          calls[c].lastSuccess # NoSuccess =>
              IF SinceSuccess(c) < 5 * 60 * 1000
              THEN /\ calls[c].how = "cache"
                   /\ calls[c].returned = calls[c].lastSuccess.result
              ELSE IF calls[c].busy
                   THEN calls[c].how = "joined"
                   ELSE calls[c].how = "started"

\* a call inside the window was served from the cache and a call exactly five
\* minutes after the success started a second resolution
C8_Witness ==
    /\ Len(calls) = 3
    /\ calls[2].lastSuccess # NoSuccess
    /\ SinceSuccess(2) < 5 * 60 * 1000
    /\ calls[2].how = "cache"
    /\ calls[3].lastSuccess # NoSuccess
    /\ SinceSuccess(3) = 5 * 60 * 1000
    /\ calls[3].how = "started"
    /\ netVercel = 2

\* Every lookup of the resolution that call c was attached to came to nothing
AllLookupsFailed(c) ==
    /\ calls[c].how # "cache"
    /\ resolutions[calls[c].res].vercel = "failed"
    /\ \/ resolutions[calls[c].res].external = "timeout"
       \/ resolutions[calls[c].res].allRejected

\* C9 as stated: a call returns null only when the first-party lookup failed,
\* every third-party lookup failed or timed out and no coordinate had been
\* cached, fresh or stale.
C9_NullOnlyWithoutAnyCache ==
    \A c \in DOMAIN calls :
        calls[c].returned = Null =>
            /\ AllLookupsFailed(c)
            /\ calls[c].lastSuccess = NoSuccess

\* C9 as amended: a call returns null only when the first-party lookup failed,
\* every third-party lookup failed or timed out and no fresh coordinate was
\* cached when it was made; a stale one does not keep it from returning null.
C9_NullOnlyWithoutFreshCache ==
    \A c \in DOMAIN calls :
        /\ calls[c].returned = Null =>
              /\ AllLookupsFailed(c)
              /\ \/ calls[c].lastSuccess = NoSuccess
                 \/ SinceSuccess(c) >= 5 * 60 * 1000
        /\ (calls[c].lastSuccess # NoSuccess /\ SinceSuccess(c) < 5 * 60 * 1000) =>
              calls[c].returned = calls[c].lastSuccess.result

\* a call made with a stale coordinate in the cache returned null after all
\* the third-party lookups had failed
C9_Witness ==
    \E c \in DOMAIN calls :
        /\ calls[c].returned = Null
        /\ calls[c].lastSuccess # NoSuccess
        /\ cachedResult # Null
        /\ resolutions[calls[c].res].allRejected

\* The coordinates handed out or cached
CoordinatesOut ==
    {calls[c].returned : c \in {d \in DOMAIN calls : calls[d].returned \notin {Null, Pending}}}
        \cup (IF cachedResult = Null THEN {} ELSE {cachedResult})

\* C10: every coordinate ipGeolocate returns or caches has a non-zero latitude
\* and a non-zero longitude.
C10_NonZeroCoordinates ==
    \A coord \in CoordinatesOut : coord.lat # 0 /\ coord.lng # 0

\* The latitude is checked: no coordinate handed out has latitude 0
GeoLatitudeNonZero ==
    \A coord \in CoordinatesOut : coord.lat # 0

\* C27: in every resolution the third-party race is out or over only when
\* the /api/geo lookup has failed (an error, a non-2xx status, a rejected
\* body or its abort), never while it is pending and never after it returned
\* a coordinate; the races issued are no more than the failed lookups.
C27_RaceOnlyAfterVercelFailed ==
    /\ \A r \in DOMAIN resolutions :
          /\ resolutions[r].external # "none" => resolutions[r].vercel = "failed"
          /\ resolutions[r].pending # {} => resolutions[r].vercel = "failed"
          /\ resolutions[r].vercel = "ok" =>
                /\ resolutions[r].external = "none"
                /\ resolutions[r].phase = "done"
                /\ resolutions[r].result # Null
    /\ netRaces = Cardinality({r \in DOMAIN resolutions :
                                  resolutions[r].vercel = "failed"})

\* one resolution was answered by /api/geo and ran no race, another one
\* raced after /api/geo had failed
C27_Witness ==
    \E r1, r2 \in DOMAIN resolutions :
        /\ resolutions[r1].vercel = "ok"
        /\ resolutions[r1].external = "none"
        /\ resolutions[r2].vercel = "failed"
        /\ resolutions[r2].external = "won"
        /\ netRaces = 1

\* A coordinate as section 6 of the specification accepts it
ValidCoordinate(c) == c # Null /\ c # Pending /\ c.lat # 0 /\ c.lng # 0

\* C28: a race that was won returned a structurally valid coordinate and a
\* race returned null only after every adapter had failed or after the
\* overall timeout; an adapter that fails leaves the race running while
\* another is out; once the race has returned no attempt is left out.
C28_RaceReturnsFirstValid ==
    \A r \in DOMAIN resolutions :
        /\ resolutions[r].external = "won" => ValidCoordinate(resolutions[r].result)
        /\ resolutions[r].external = "lost" =>
              resolutions[r].result = Null /\ resolutions[r].allRejected
        /\ resolutions[r].external = "timeout" => resolutions[r].result = Null
        /\ resolutions[r].external = "racing" =>
              resolutions[r].pending # {} /\ resolutions[r].result = Pending
        /\ resolutions[r].phase = "done" => resolutions[r].pending = {}

\* The race as the parsers decide it: the same with the winner's coordinate
\* being whatever its parser let through
GeoRaceFollowsParsers ==
    \A r \in DOMAIN resolutions :
        /\ resolutions[r].external = "won" =>
              resolutions[r].result \notin {Null, Pending}
        /\ resolutions[r].external = "lost" =>
              resolutions[r].result = Null /\ resolutions[r].allRejected
        /\ resolutions[r].external = "timeout" => resolutions[r].result = Null
        /\ resolutions[r].external = "racing" =>
              resolutions[r].pending # {} /\ resolutions[r].result = Pending
        /\ resolutions[r].phase = "done" => resolutions[r].pending = {}

\* The cache of ipGeolocate is written by successful resolutions only: a
\* resolution that ends with null leaves cachedResult and cachedAt alone.
GeoFailureKeepsCache ==
    [][\A r \in DOMAIN resolutions :
          (resolutions[r].phase # "done" /\ resolutions'[r].phase = "done") =>
              IF resolutions'[r].result = Null
              THEN cachedResult' = cachedResult /\ cachedAt' = cachedAt
              ELSE cachedResult' = resolutions'[r].result /\ cachedAt' = geoNow]_vars

\* The slot names no finished resolution, and every call that joined or
\* started a resolution still waits on one that is under way or has its result
SlotNamesLiveResolution ==
    /\ inflight # 0 =>
          /\ inflight \in DOMAIN resolutions
          /\ resolutions[inflight].phase # "done"
    /\ \A i \in DOMAIN calls :
          calls[i].returned = Pending =>
              /\ calls[i].res = inflight
              /\ resolutions[calls[i].res].phase # "done"
    /\ \A i \in DOMAIN calls : calls[i].how = "joined" => calls[i].busy

\* C40: provided every network request responds or is aborted by its timeout,
\* every ipGeolocate() call eventually completes, and the in-flight slot is
\* cleared when its resolution ends (found, lost or timed out), so that no
\* later call waits on a finished or stuck resolution.
C40_EveryCallCompletes ==
    /\ []SlotNamesLiveResolution
    /\ (inflight # 0 \/ \E i \in DOMAIN calls : calls[i].returned = Pending)
          ~> (inflight = 0 /\ \A i \in DOMAIN calls : calls[i].returned # Pending)

\* A call that joined a resolution got its answer when the race timed out,
\* and the slot is clear again
C40_Witness ==
    /\ inflight = 0
    /\ \E i \in DOMAIN calls :
          /\ calls[i].how = "joined"
          /\ calls[i].returned = Null
          /\ resolutions[calls[i].res].external = "timeout"
    /\ \E i \in DOMAIN calls :
          calls[i].how = "started" /\ calls[i].res = Len(resolutions)
              /\ Len(resolutions) >= 2 /\ calls[i].returned \notin {Null, Pending}

(***************************************************************************)
(* ServerCrowdCounter claims                                               *)
(***************************************************************************)
\* the last step ended a sendHeartbeat() call
HeartbeatEnded == hbDone.tag = "done"
\* the last step ended a sendHeartbeat() call that returned false
HeartbeatFailed == HeartbeatEnded /\ ~hbDone.result

\* C11: while the counter is stopped (stop() has returned, start() has not
\* been called again) no steady interval and no retry interval is live and no
\* step begins a heartbeat.
C11_StopDisarms ==
    ~counterStarted =>
        /\ steadyLive = {}
        /\ retryLive = {}
        /\ ~hbBegan

\* C12: a retry interval is set only by a first heartbeat that failed, and no
\* retry interval sends more than MAX_INITIAL_RETRIES heartbeats.
C12_BoundedRetries ==
    /\ (HeartbeatEnded /\ ~(retryLive \subseteq hbDone.retryBefore)) =>
           (hbDone.kind = "first" /\ ~hbDone.result)
    /\ \A t \in DOMAIN retries : retries[t] <= MAX_INITIAL_RETRIES

\* C13: after a heartbeat that failed on a remote error or a thrown network
\* error the state has isActive = false and error set, and the listeners were
\* notified.
C13_FailureMarksInactive ==
    (HeartbeatEnded /\ hbDone.how \in {"rpcerror", "thrown"}) =>
        /\ crowdState.isActive = FALSE
        /\ crowdState.error # Null
        /\ hbDone.notified

\* C14: a heartbeat that fails (remote error, thrown error) or is skipped (no
\* coordinates, no device hash) leaves nearbyCount and approximateCount as
\* they were.
C14_FailureKeepsCounts ==
    HeartbeatFailed =>
        /\ crowdState.nearbyCount = hbDone.before.nearbyCount
        /\ crowdState.approximateCount = hbDone.before.approximateCount

\* a heartbeat has failed on a thrown error after an earlier one set the
\* counts to 23 and 20
C14_Witness ==
    /\ HeartbeatEnded
    /\ hbDone.how = "thrown"
    /\ crowdState.nearbyCount = 23
    /\ crowdState.approximateCount = 20

C16_SkipWithoutCoords ==
    /\ \A i \in 1..MaxAttempts :
          attempts[i].pc = "rpc" =>
              /\ attempts[i].device_hash_param # Null
              /\ attempts[i].coords \in CoordsValues
    /\ (HeartbeatEnded /\ hbDone.how = "nocoords") =>
          /\ ~hbDone.rpcIssued
          /\ ~hbDone.result
          /\ steadyLive = hbDone.steadyBefore
          /\ ~hbDone.exhausted => hbDone.retryBefore \subseteq retryLive

\* a steady heartbeat has been skipped for want of coordinates while the
\* first one still awaits ipGeolocate(), and the steady interval is live
C16_Witness ==
    /\ HeartbeatEnded
    /\ hbDone.how = "nocoords"
    /\ hbDone.kind = "steady"
    /\ steadyLive # {}
    /\ \E i \in 1..MaxAttempts : attempts[i].pc = "geo"

\* C17: in every state approximateCount = approximateCount(nearbyCount); a
\* successful heartbeat sets nearbyCount to the count heartbeat_nearby
\* returned and isActive to true.
C17_ApproxIsQuantizedRaw ==
    /\ crowdState.approximateCount = approximateCount(crowdState.nearbyCount)
    /\ (HeartbeatEnded /\ hbDone.how = "ok") =>
          /\ crowdState.isActive
          /\ hbDone.data.tag = "number" =>
                 crowdState.nearbyCount = hbDone.data.n

\* a heartbeat has returned 23 after start, stop and an earlier failure
C17_Witness ==
    /\ HeartbeatEnded
    /\ hbDone.how = "ok"
    /\ hbDone.kind = "retry"
    /\ ~counterStarted
    /\ crowdState.nearbyCount = 23
    /\ crowdState.approximateCount = 20

\* Only stop() clears a steady interval
SteadyTimerKeepsFiring ==
    [][(steadyLive \ steadyLive' # {}) =>
          (~counterStarted' /\ heartbeatTimer' = 0)]_vars

\* C29: a retry interval, once set by a failed first heartbeat, is
\* eventually cleared, by the first retry that succeeds, at the attempt
\* bound or by stop(), when every interval that is live keeps firing and
\* every heartbeat under way completes; meanwhile nothing but stop() clears a
\* steady interval.
C29_RetryTimerEventuallyCancelled ==
    /\ \A t \in 1..MaxSessions : (t \in retryLive) ~> (t \notin retryLive)
    /\ SteadyTimerKeepsFiring

\* The same within the first session
RetryTimerOfFirstSessionCancelled ==
    /\ (1 \in retryLive) ~> (1 \notin retryLive)
    /\ SteadyTimerKeepsFiring

\* C31: when ipGeolocate() fails while cachedCoords holds a coordinate,
\* heartbeat_nearby is called with that coordinate whatever its age, and the
\* failed lookup leaves cachedCoords and cachedCoordsTime as they were; only
\* a lookup that succeeds replaces them (and without a cached coordinate a
\* failed lookup skips the heartbeat and leaves the cache empty).
C31_FailedLookupUsesCache ==
    /\ (hbDone.tag = "lookup" /\ hbDone.result = Null) =>
          /\ hbDone.cachedBefore # Null
          /\ hbDone.coords = hbDone.cachedBefore
          /\ \E i \in DOMAIN attempts :
                attempts[i].pc = "rpc" /\ attempts[i].coords = hbDone.cachedBefore
          /\ cachedCoords = hbDone.cachedBefore
          /\ cachedCoordsTime = hbDone.timeBefore
    /\ (hbDone.tag = "lookup" /\ hbDone.result # Null) =>
          /\ hbDone.coords = hbDone.result
          /\ cachedCoords = hbDone.result
          /\ cachedCoordsTime = crowdNow
    /\ (hbDone.tag = "done" /\ hbDone.how = "nocoords") => cachedCoords = Null

\* A failed lookup answered from a cache that is no longer fresh
C31_Witness ==
    /\ hbDone.tag = "lookup"
    /\ hbDone.result = Null
    /\ hbDone.coords # Null
    /\ crowdNow - hbDone.timeBefore >= COORDS_MAX_AGE_MS
    /\ counterStarted

\* C35: after stop() and until the next start() the state stays at
\* nearbyCount = 0, approximateCount = 0, isActive = false, also when a
\* heartbeat that was in flight at stop() succeeds afterwards.
C35_StoppedStateStaysZero ==
    ~counterStarted =>
        /\ crowdState.nearbyCount = 0
        /\ crowdState.approximateCount = 0
        /\ ~crowdState.isActive

\* stop() itself leaves the zero state, whatever is in flight
StopZeroesState ==
    [][(counterStarted /\ ~counterStarted') =>
          /\ crowdState'.nearbyCount = 0
          /\ crowdState'.approximateCount = 0
          /\ ~crowdState'.isActive]_vars

\* While the counter is stopped, no start() is awaiting the device hash and no
\* heartbeat is under way or due, nothing but stop() changes the state
StoppedAndQuietStaysZero ==
    [][(/\ ~counterStarted /\ ~counterStarted'
        /\ steadyLive = {} /\ retryLive = {} /\ awaitingHash = {}
        /\ \A i \in DOMAIN attempts : attempts[i] = NoAttempt) =>
          /\ crowdState' \in {crowdState, StateStopped(crowdState)}
          /\ steadyLive' = {} /\ retryLive' = {}
          /\ \A i \in DOMAIN attempts : attempts'[i] = NoAttempt]_vars

\* C36: for every sequence of start() and stop() calls, at most one steady
\* interval and at most one retry interval are live at any time, and every
\* live interval is the one heartbeatTimer or retryTimer holds.
C36_TimersAreTheRecordedOnes ==
    /\ Cardinality(steadyLive) <= 1
    /\ Cardinality(retryLive) <= 1
    /\ steadyLive \subseteq {heartbeatTimer}
    /\ retryLive \subseteq {retryTimer}

\* With one start() call the live intervals are the recorded ones, stopped
\* or not
TimersOfOneSessionRecorded ==
    startCalls <= 1 => C36_TimersAreTheRecordedOnes

\* What the claim says listener l has been given since it last subscribed:
\* the state at that moment, then every state produced up to now or up to
\* its unsubscription
OwedSince(l) ==
    LET upto == IF subSpan[l].to = 0 THEN Len(subProduced) ELSE subSpan[l].to
    IN  [k \in 1..(upto - subSpan[l].from + 1) |->
            subProduced[subSpan[l].from + k - 1]]

\* What listener l has been given since it last subscribed
GivenSince(l) ==
    [k \in 1..(Len(subReceived[l]) - subSpan[l].base) |->
        subReceived[l][subSpan[l].base + k]]

\* C32: subscribe(listener) gives the listener the current state at once,
\* every later state is given to each subscribed listener in the order the
\* states are produced, a listener that throws during a notification does not
\* stop the others being notified, and a listener is given nothing after its
\* unsubscribe function is called.
C32_ListenersGetEveryState ==
    \A l \in ListenerIds :
        IF subSpan[l].from = 0 THEN subReceived[l] = <<>>
        ELSE GivenSince(l) = OwedSince(l)

\* A notification in which the first listener threw and the second was given
\* the state, while a third, unsubscribed before, was not
C32_Witness ==
    /\ subEvent.kind = "update"
    /\ Len(subOrder) = 2
    /\ subOrder[1] \in subEvent.throwers
    /\ GivenSince(subOrder[2])[Len(GivenSince(subOrder[2]))] = subState
    /\ Len(GivenSince(subOrder[2])) >= 3
    /\ \E l \in ListenerIds :
          /\ subSpan[l].from > 0
          /\ subSpan[l].to > 0
          /\ subSpan[l].to < Len(subProduced)
          /\ Len(GivenSince(l)) = subSpan[l].to - subSpan[l].from + 1

(***************************************************************************)
(* CrowdReporter claims                                                    *)
(***************************************************************************)
InFlightReports(r) == {j \in 1..MaxReports : r[j] # NoReport}

\* C18: while the reporter is started peakRawCount is the largest nearbyCount
\* delivered since start() (the state given at subscription included) and
\* never goes down from one step to the next; stop() sets it to 0.
C18_PeakIsRunningMax ==
    /\ [](reporterStarted => peakRawCount = maxDelivered)
    /\ [](rpEvent.kind = "stop" => peakRawCount = 0)
    /\ [][(reporterStarted /\ reporterStarted') =>
              peakRawCount' >= peakRawCount]_vars

\* the peak is 23 after the counter delivered 23, then a lower 7
C18_Witness ==
    /\ reporterStarted
    /\ peakRawCount = 23
    /\ crowdState.nearbyCount = 7
    /\ crowdState.isActive

\* a report_crowd_peak call is begun only with approx =
\* approximateCount(peakRawCount) > 0, different from lastReportedPeak, and a
\* city, and it carries that approx
ReportOnlyWhenDue ==
    [][InFlightReports(reports) # InFlightReports(reports') /\
       InFlightReports(reports) \subseteq InFlightReports(reports') =>
          LET approx == approximateCount(peakRawCount)
          IN  /\ approx > 0
              /\ approx # lastReportedPeak
              /\ currentCity # Null
              /\ \A j \in InFlightReports(reports') \ InFlightReports(reports) :
                    /\ reports'[j].p_count = approx
                    /\ reports'[j].p_city = currentCity]_vars

\* C19 as stated: a report is issued only when due and carries the
\* approximation, and lastReportedPeak changes only when a report succeeds, to
\* the value reported.
C19_LastReportedOnlyBySuccess ==
    /\ ReportOnlyWhenDue
    /\ [][lastReportedPeak' # lastReportedPeak =>
             /\ rpEvent'.kind = "reported"
             /\ rpEvent'.ok
             /\ lastReportedPeak' = rpEvent'.approx]_vars

\* C19: a report is issued only when due and carries the approximation, and
\* lastReportedPeak changes only when a report succeeds, to the value
\* reported, or when stop() resets it to 0.
C19_LastReportedBySuccessOrStop ==
    /\ ReportOnlyWhenDue
    /\ [][lastReportedPeak' # lastReportedPeak =>
             \/ /\ rpEvent'.kind = "reported"
                /\ rpEvent'.ok
                /\ lastReportedPeak' = rpEvent'.approx
             \/ /\ rpEvent'.kind = "stop"
                /\ lastReportedPeak' = 0]_vars

\* a report of 20 has succeeded after one of 10 had been recorded
C19_Witness ==
    /\ rpEvent.kind = "reported"
    /\ rpEvent.ok
    /\ rpEvent.approx = 20
    /\ lastReportedPeak = 20
    /\ peakRawCount = 23

\* C20: a reporting tick that finds peakRawCount as the tick before found it,
\* with a city known at both, issues no report_crowd_peak call.
C20_NoSecondWrite ==
    (rpEvent.kind = "tick" /\ rpEvent.again) => ~rpEvent.issued

\* C21: within one session of the reporter every value sent to
\* report_crowd_peak is greater than the value sent before it (the first one
\* is greater than 0): the sequence never decreases and never repeats, so
\* that counts that stay within one bucket are reported once.
C21_StrictlyIncreasingReports ==
    (rpEvent.kind = "tick" /\ rpEvent.issued) =>
        rpEvent.approx > rpEvent.prevIssued

\* The values sent within one session never decrease
ReportsNeverDecrease ==
    (rpEvent.kind = "tick" /\ rpEvent.issued) =>
        rpEvent.approx >= rpEvent.prevIssued

\* C37: after CrowdReporter.stop() and until the next start(), peakRawCount
\* and lastReportedPeak both stay 0 and no report is initiated, also when a
\* report_crowd_peak call that was in flight at stop() succeeds afterwards.
C37_StoppedReporterStaysReset ==
    ~reporterStarted =>
        /\ peakRawCount = 0
        /\ lastReportedPeak = 0
        /\ ~reportTimer
        /\ rpEvent.kind # "tick"

\* stop() resets both fields, cancels the interval and unsubscribes; only a
\* report that answers later writes lastReportedPeak while stopped
ReporterStopResets ==
    /\ rpEvent.kind = "stop" =>
          /\ peakRawCount = 0
          /\ lastReportedPeak = 0
          /\ ~reportTimer
          /\ ReporterListener \notin listeners
    /\ ~reporterStarted =>
          /\ peakRawCount = 0
          /\ ~reportTimer
          /\ rpEvent.kind # "tick"

\* A session whose first positive approximation is not reported: the tick
\* finds it equal to the lastReportedPeak a report of the session before left
FirstPeakOfSessionNotReported ==
    /\ reporterStarted
    /\ rpEvent.kind = "tick"
    /\ rpEvent.approx > 0
    /\ rpEvent.city # Null
    /\ ~rpEvent.issued
    /\ rpEvent.prevIssued = 0
    /\ \A j \in DOMAIN reports : reports[j] = NoReport

\* A reporting tick has found a positive peak in city c, and no report for c
\* has been issued in this session
PeakOwedTo(c) ==
    /\ reporterStarted
    /\ rpEvent.kind = "tick"
    /\ rpEvent.city = c
    /\ rpEvent.approx > 0
    /\ c \notin lastTick.cities

\* C38: every city for which CrowdReporter holds a positive peak at a
\* reporting tick eventually gets a report of it, also a city detected during
\* the session while approximateCount(peakRawCount) is unchanged: from such a
\* tick on, a report for the city is issued, unless the session ends or the
\* city is left first.
C38_EveryCityGetsItsReport ==
    \A c \in 1..MaxCities :
        PeakOwedTo(CityValues[c]) ~>
            \/ ~reporterStarted
            \/ currentCity # CityValues[c]
            \/ CityValues[c] \in lastTick.cities

\* The first city of a session with a positive peak does get its report
FirstCityGetsItsReport ==
    (PeakOwedTo(CityValues[1]) /\ lastTick.cities = {} /\ lastReportedPeak = 0) ~>
        \/ ~reporterStarted
        \/ currentCity # CityValues[1]
        \/ CityValues[1] \in lastTick.cities
        \/ lastReportedPeak # 0

(***************************************************************************)
(* useSloganVote claims                                                    *)
(***************************************************************************)
\* The bucket of a direction raised or lowered by one
Bump(tally, direction, by) ==
    IF direction = 1 THEN [tally EXCEPT !.likes = @ + by]
    ELSE [tally EXCEPT !.dislikes = @ + by]

\* The toggle rule of the specification
ToggleRule(tally, direction) ==
    IF direction = tally.userVote
    THEN [Bump(tally, direction, -1) EXCEPT !.userVote = 0]
    ELSE IF tally.userVote = 0
    THEN [Bump(tally, direction, 1) EXCEPT !.userVote = direction]
    ELSE [Bump(Bump(tally, tally.userVote, -1), direction, 1)
             EXCEPT !.userVote = direction]

\* {likes, dislikes, userVote} of a tally
Votes(tally) == <<tally.likes, tally.dislikes, tally.userVote>>

\* The examples of the specification: a tally, a direction, the tally after
VoteExamples == << <<(<<0, 0, 0>>), 1, (<<1, 0, 1>>)>>,
                   <<(<<1, 0, 1>>), 1, (<<0, 0, 0>>)>>,
                   <<(<<1, 0, 1>>), -1, (<<0, 1, -1>>)>> >>

\* The call the last step made gave the tally the toggle rule gives
FollowsToggleRule ==
    /\ Votes(voteEvent.after) =
          Votes(ToggleRule(voteEvent.before, voteEvent.value))
    /\ \A i \in 1..Len(VoteExamples) :
          (/\ Votes(voteEvent.before) = VoteExamples[i][1]
           /\ voteEvent.value = VoteExamples[i][2]) =>
              Votes(voteEvent.after) = VoteExamples[i][3]

\* C23, as claimed: every vote() call applies the toggle rule to the tally
\* of the item, and the three examples come out as listed.
C23_EveryVoteToggles ==
    voteEvent.kind \in {"vote", "dropped"} => FollowsToggleRule

\* C23, amended: a vote() call made once the voter id is loaded applies the
\* toggle rule to the tally of the item, and the three examples come out as
\* listed; a call made before that changes nothing.
C23_VoteWithVoterIdToggles ==
    /\ voteEvent.kind = "vote" => voterIdRef /\ FollowsToggleRule
    /\ voteEvent.kind = "dropped" =>
          ~voterIdRef /\ voteEvent.after = voteEvent.before

\* from {1,0,+1}, reached by vote(+1), a second vote(+1) gave {0,0,0}
C23_Witness ==
    /\ voteEvent.kind = "vote"
    /\ Len(voteLog) = 2
    /\ voteLog[1].value = 1
    /\ Votes(voteLog[1].current) = <<0, 0, 0>>
    /\ voteEvent.value = 1
    /\ Votes(voteEvent.before) = <<1, 0, 1>>
    /\ Votes(voteState) = <<0, 0, 0>>

\* The calls whose submit_vote has been issued
VotesSubmitted == {i \in DOMAIN voteLog : voteLog[i].pc # "updated"}

\* C24: a call whose submit_vote has been issued had its optimistic tally in
\* the state when it was issued, and p_vote is the user's vote that the
\* toggle rule leaves, 0 for a toggle-off and the direction otherwise; while
\* a call has updated the state and not yet issued submit_vote, the state
\* holds its optimistic tally.
C24_UpdateBeforeSubmit ==
    /\ \A i \in VotesSubmitted :
          /\ voteLog[i].updatedFirst
          /\ voteLog[i].p_vote =
                ToggleRule(voteLog[i].current, voteLog[i].value).userVote
    /\ votePc # 0 =>
          /\ voteLog[votePc].pc = "updated"
          /\ VotesSubmitted = DOMAIN voteLog \ {votePc}
          /\ Votes(voteState) =
                Votes(ToggleRule(voteLog[votePc].current, voteLog[votePc].value))

\* a toggle-off went out with 0 while the vote it takes back, sent with its
\* direction, was still out
C24_Witness ==
    /\ Len(voteLog) = 2
    /\ voteLog[1].pc = "rpc" /\ voteLog[1].p_vote = -1
    /\ voteLog[2].pc = "rpc" /\ voteLog[2].p_vote = 0
    /\ voteLog[2].value = -1

\* C25: when submit_vote fails or answers rate_limited, the entry of the item
\* after the rollback is the entry it had immediately before that call's
\* optimistic update, score, likes, dislikes and userVote; when the call is
\* accepted the entry stays as that step found it.
C25_RollbackRestoresSnapshot ==
    voteEvent.kind = "returned" =>
        IF voteEvent.accepted
        THEN voteState = voteEvent.before
        ELSE voteState = voteLog[voteEvent.call].current

\* a call was rejected while a later one was out: the rollback changed the
\* entry, back to what the rejected call had found
C25_Witness ==
    /\ voteEvent.kind = "returned"
    /\ ~voteEvent.accepted
    /\ voteState # voteEvent.before
    /\ voteEvent.call = 1
    /\ Len(voteLog) >= 2
    /\ voteLog[2].pc = "rpc"

\* The tally before the first call
VoteInitialTally ==
    IF voteLog = <<>> THEN voteState ELSE voteLog[1].current

\* The toggle rule applied for the accepted calls from call i on, in the
\* order of issue
RECURSIVE AcceptedApplied(_, _)
AcceptedApplied(tally, i) ==
    IF i > Len(voteLog) THEN tally
    ELSE AcceptedApplied(IF voteLog[i].pc = "ok"
                         THEN ToggleRule(tally, voteLog[i].value)
                         ELSE tally, i + 1)

\* C26: once every call has completed, the user's vote and the counts of the
\* item are those of the accepted calls applied in the order of issue to the
\* tally before the first call.
C26_NoLostUpdate ==
    (/\ votePc = 0
     /\ \A i \in DOMAIN voteLog : voteLog[i].pc \in {"ok", "rejected"}) =>
        Votes(voteState) = Votes(AcceptedApplied(VoteInitialTally, 1))

\* Calls made in turn, each after the one before it had completed, lose
\* nothing
VoteCallsInTurnLoseNothing ==
    (/\ votePc = 0
     /\ \A i \in DOMAIN voteLog :
           voteLog[i].pc \in {"ok", "rejected"} /\ voteLog[i].alone) =>
        Votes(voteState) = Votes(AcceptedApplied(VoteInitialTally, 1))

\* likes >= 0, dislikes >= 0, and the user's own vote is among the counted
TallyConsistent(t) ==
    /\ t.likes >= 0
    /\ t.dislikes >= 0
    /\ (t.userVote = 1 => t.likes >= 1)
    /\ (t.userVote = -1 => t.dislikes >= 1)

\* C39: in every reachable tally, after any sequence of fetchVotes() loads,
\* vote() calls and rollbacks, likes >= 0 and dislikes >= 0, userVote = +1
\* implies likes >= 1 and userVote = -1 implies dislikes >= 1, and each vote()
\* changes the score by exactly the change in likes minus the change in
\* dislikes.
C39_TallyInvariants ==
    /\ TallyConsistent(voteState)
    /\ voteEvent.kind = "vote" =>
          voteEvent.after.score - voteEvent.before.score =
              (voteEvent.after.likes - voteEvent.before.likes)
                  - (voteEvent.after.dislikes - voteEvent.before.dislikes)

\* The part about the score alone: every vote() moves it by the change in
\* likes minus the change in dislikes
VoteScoreFollowsCounts ==
    voteEvent.kind = "vote" =>
        voteEvent.after.score - voteEvent.before.score =
            (voteEvent.after.likes - voteEvent.before.likes)
                - (voteEvent.after.dislikes - voteEvent.before.dislikes)

\* vote() calls and rollbacks keep what a load gave: from a tally in which
\* the user's vote is counted they reach only such tallies
VotesKeepConsistency ==
    TallyConsistent(voteState)

(***************************************************************************)
(* Specifications, one per component                                       *)
(***************************************************************************)
InitQuantizer == QuantInit /\ SyncIdle /\ HookIdle /\ GeoIdle /\ CrowdIdle /\ VoteIdle
    /\ SubIdle
NextQuantizer == Approximate
SpecQuantizer == InitQuantizer /\ [][NextQuantizer]_vars

InitSync == SyncInit /\ QuantIdle /\ HookIdle /\ GeoIdle /\ CrowdIdle /\ VoteIdle
    /\ SubIdle
NextSync == CalculateLocalState \/ IsSlangExpired
SpecSync == InitSync /\ [][NextSync]_vars

InitCountdown ==
    CountdownInit /\ QuantIdle /\ HookIdle /\ GeoIdle /\ CrowdIdle /\ VoteIdle
    /\ SubIdle
SpecCountdown == InitCountdown /\ [][NextSync]_vars

InitHook == HookInit /\ QuantIdle /\ SyncIdle /\ GeoIdle /\ CrowdIdle /\ VoteIdle
    /\ SubIdle
NextHook ==
    \/ IntervalTick
    \/ TimePasses
    \/ RealtimeChange
    \/ RpcReturnsSlang
    \/ RpcReturnsEmpty
    \/ RpcFails
SpecHook == InitHook /\ [][NextHook]_vars

InitGeo == GeoInit /\ QuantIdle /\ SyncIdle /\ HookIdle /\ CrowdIdle /\ VoteIdle
    /\ SubIdle
NextGeo ==
    \/ IpGeolocate
    \/ VercelResponds
    \/ VercelFails
    \/ AdapterResponds
    \/ AdapterFails
    \/ ExternalTimeout
    \/ GeoClockTick
SpecGeo == InitGeo /\ [][NextGeo]_vars

\* Every request that is out gets its response, fails or is aborted by its
\* timer: the /api/geo request within VERCEL_TIMEOUT_MS, the race within
\* FALLBACK_TIMEOUT_MS
GeoFairness ==
    /\ WF_vars(VercelResponds \/ VercelFails)
    /\ WF_vars(AdapterResponds \/ AdapterFails \/ ExternalTimeout)
SpecGeoFair == InitGeo /\ [][NextGeo]_vars /\ GeoFairness

InitCounter == CrowdInit /\ QuantIdle /\ SyncIdle /\ HookIdle /\ GeoIdle /\ VoteIdle
    /\ SubIdle
NextCounter ==
    \/ Start
    \/ StartResumes
    \/ Stop
    \/ SteadyTick
    \/ RetryTick
    \/ GetCoordsReturns
    \/ HeartbeatRpcReturns
    \/ CrowdClockTick
SpecCounter == InitCounter /\ [][NextCounter]_vars

\* the same while the cached coordinates stay fresh or absent
NextFairCounter ==
    \/ Start
    \/ StartResumes
    \/ Stop
    \/ SteadyTick
    \/ RetryTick
    \/ GetCoordsReturns
    \/ HeartbeatRpcReturns

\* ServerCrowdCounter with its timers firing and its heartbeats completing:
\* an interval that is live fires again and again, however often the
\* heartbeats followed at one time are all under way when it is due, and
\* getAnonymousId(), ipGeolocate() and heartbeat_nearby settle
CounterFairness ==
    /\ WF_vars(StartResumes)
    /\ SF_vars(SteadyTick)
    /\ \A t \in 1..MaxSessions : SF_vars(RetryTickOf(t))
    /\ \A i \in 1..MaxAttempts :
          WF_vars(GetCoordsReturnsTo(i)) /\ WF_vars(HeartbeatRpcReturnsTo(i))

\* one session, run to its end or stopped
SpecCounterFair ==
    InitCounter /\ [][NextFairCounter]_vars /\ CounterFairness

\* a session, stop() and a second session, one heartbeat at a time
InitSessions ==
    /\ CrowdInitWith(MaxSessions, 1, 1)
    /\ QuantIdle /\ SyncIdle /\ HookIdle /\ GeoIdle /\ VoteIdle
    /\ SubIdle
SpecSessions == InitSessions /\ [][NextFairCounter]_vars /\ CounterFairness

\* CrowdReporter with ServerCrowdCounter as its source: the counts reach the
\* reporter from the first and the steady heartbeats and from stop()
InitReporter == CrowdInit /\ QuantIdle /\ SyncIdle /\ HookIdle /\ GeoIdle /\ VoteIdle
    /\ SubIdle
NextReporter ==
    \/ Start
    \/ StartResumes
    \/ Stop
    \/ SteadyTick
    \/ GetCoordsReturns
    \/ HeartbeatRpcReturns
    \/ ReporterStart
    \/ ReporterStop
    \/ ReportTick
    \/ ReportRpcReturns
    \/ PollCity
    \/ LocationStop
SpecReporter == InitReporter /\ [][NextReporter]_vars

\* ServerCrowdCounter as its listeners see it
InitListeners ==
    /\ SubInit
    /\ QuantIdle /\ SyncIdle /\ HookIdle /\ GeoIdle /\ CrowdIdle /\ VoteIdle
NextListeners ==
    \/ Subscribe
    \/ Unsubscribe
    \/ UpdateCrowdState
SpecListeners == InitListeners /\ [][NextListeners]_vars

\* The reporter where the device moves from one city to another: the report
\* interval goes on firing and every report_crowd_peak call settles
InitCities ==
    /\ CrowdInitWith(MaxStarts, 1, MaxCities)
    /\ QuantIdle /\ SyncIdle /\ HookIdle /\ GeoIdle /\ VoteIdle
    /\ SubIdle
ReporterFairness ==
    /\ SF_vars(ReportTick)
    /\ WF_vars(ReportRpcReturns)
SpecCities == InitCities /\ [][NextReporter]_vars /\ ReporterFairness

\* useSloganVote: the vote() calls on one slogan
InitVote ==
    VoteInit /\ QuantIdle /\ SyncIdle /\ HookIdle /\ GeoIdle /\ CrowdIdle
    /\ SubIdle
NextVote ==
    \/ VoterIdLoaded
    \/ Vote
    \/ SubmitVote
    \/ SubmitVoteReturns
SpecVote == InitVote /\ [][NextVote]_vars

InitVoteLedger ==
    VoteLedgerInit /\ QuantIdle /\ SyncIdle /\ HookIdle /\ GeoIdle /\ CrowdIdle
    /\ SubIdle
NextVoteLedger ==
    \/ VoterIdLoaded
    \/ FetchVotes
    \/ Vote
    \/ SubmitVote
    \/ SubmitVoteReturns
SpecVoteLedger == InitVoteLedger /\ [][NextVoteLedger]_vars

====
